---- MODULE Spec2Model ----
(***************************************************************************)
(* Model of the AUR helper's resolution engine (src/src/aur.rs).           *)
(*                                                                         *)
(*   Spec        one call of resolve_build_order against a metadata source *)
(*   SpecTwice   the same call made twice against the unchanged dataset    *)
(*   SpecBranch  one call of fetch_branch_srcinfo (three candidate URLs,   *)
(*               each fetched by fetch_srcinfo_from_url)                   *)
(*   SpecFetch   one call of fetch_infos under either source; the Mirror   *)
(*               source step by step, its parallel tasks interleaved       *)
(*   SpecFetchFair  the Mirror call of SpecFetch with weak fairness        *)
(*   SpecPlan    resolve_build_order followed by the caller's second       *)
(*               metadata batch and grouping by pkgbase (src/src/main.rs)  *)
(*                                                                         *)
(* Strings that the code takes apart (dependency declarations) are         *)
(* sequences of one-character strings; package names are such sequences    *)
(* too, so that a declaration and a name compare as the code compares them.*)
(***************************************************************************)
EXTENDS Integers, Sequences, FiniteSets, TLC

VARIABLES
    \* ---- resolve_build_order (aur.rs:101-157)
    roots,        \* the roots argument
    db,           \* the upstream dataset: name -> record the source returns
    to_visit,     \* Vec<String> to_visit
    seen,         \* HashSet<String> seen
    infos,        \* HashMap<String, AurInfo> infos
    graph,        \* the DiGraph built after discovery: [nodes, edges]
    result,       \* the Result the call returned
    pc,           \* "discover" | "done"
    fetchLog,     \* history: the name lists handed to the metadata source
    fetchFailed,  \* history: a fetch of this call returned Err
    run,          \* which call this is (1, or 2 under SpecTwice)
    firstResult,  \* the Result of call 1, kept for comparison with call 2
    \* ---- fetch_branch_srcinfo / fetch_srcinfo_from_url (aur.rs:288-364)
    urlIdx,       \* index of the candidate URL being fetched (1..3)
    attempt,      \* loop variable of fetch_srcinfo_from_url (0-based)
    lastErr,      \* Option<anyhow::Error> last_err
    bresult,      \* the Result fetch_branch_srcinfo returned
    bpc,          \* "idle" | "fetch" | "done"
    reqLog,       \* history: every HTTP request sent, with its outcome
    \* ---- fetch_infos / github_fetch_infos (aur.rs:159-259)
    source,       \* AurSource::from_cfg(cfg): "official" (the default) | "github"
    base_ok,      \* github_raw_base(cfg) is Ok
    mirror,       \* the mirror: branch -> the records of its .SRCINFO
    names_arg,    \* the names argument of fetch_infos
    queue,        \* VecDeque<String> queue
    attempts,     \* HashMap<String, u8> attempts
    branch_cache, \* HashMap<String, Vec<AurInfo>> branch_cache
    package_to_branch, \* HashMap<String, String> package_to_branch
    results,      \* HashMap<String, AurInfo> results
    chunk,        \* Vec<String> chunk, after the retain
    workers,      \* the tasks of fetch_branches_parallel: branch -> outcome
    fresult,      \* the Result fetch_infos returned
    fpc,          \* "idle" | "start" | "loop" | "workers" | "done"
    rpcLog,       \* history: the name list of every request to the RPC
    branchLog,    \* history: every branch handed to the branch fetcher
    takeLog,      \* history: every name popped from the queue
    taskLog,      \* history: branch -> the task that fetched it in this call
    \* ---- the pkgbase grouping of the callers (main.rs:381-400, 556-574)
    info_for_order, \* HashMap<String, AurInfo> info_for_order
    pkgbases,     \* Vec<String> pkgbases
    ppc,          \* "idle" | "resolve" | "done" | "failed"
    \* ---- parse_srcinfo (aur.rs:366-477)
    contents,     \* &str contents, as a sequence of lines
    parsed,       \* the Result<Vec<AurInfo>> it returns
    spc,          \* "idle" | "parse" | "done"
    \* ---- strip_version (aur.rs:79-85)
    dep_arg,      \* &str dep
    stripped,     \* the Strings returned: for dep, then for the String returned
    \* ---- the update detection of the callers (main.rs:191-207, 342-359)
    foreign,      \* HashMap<String, String> foreign: installed name -> version
    latest,       \* HashMap<String, AurInfo> infos, as name -> latest version
    foreign_iter, \* the order foreign.iter() yields the installed names in
    cmpLog,       \* what pac::vercmp answered for the names compared so far
    outdated,     \* Vec<Pickable> outdated
    upc,          \* "idle" | "compare" | "done"
    \* ---- the configuration (config.rs:12-13)
    mirror_base,  \* Option<String> cfg.mirror_base
    \* ---- the clone, edit and build steps of the callers (main.rs:402-470, 584-664)
    clone_failed, \* Vec<String> clone_failed
    build_failed, \* Vec<String> build_failed
    built_ok,     \* Vec<String> built_ok
    base_idx,     \* the position of `base` in the running `for base in &pkgbases`
    opLog,        \* the commands run so far, each with its base and outcome
    gpc           \* "idle" | "clone" | "prompt" | "regen" | "build" | "collect" | "returned"

rvars == <<roots, db, to_visit, seen, infos, graph, result, pc, fetchLog,
           fetchFailed, run, firstResult>>
bvars == <<urlIdx, attempt, lastErr, bresult, bpc, reqLog>>
fvars == <<source, base_ok, mirror, names_arg, queue, attempts, branch_cache,
           package_to_branch, results, chunk, workers, fresult, fpc, rpcLog,
           branchLog, takeLog, taskLog>>
pvars == <<info_for_order, pkgbases, ppc>>
svars == <<contents, parsed, spc>>
kvars == <<dep_arg, stripped>>
uvars == <<foreign, latest, foreign_iter, cmpLog, outdated, upc>>
cvars == <<mirror_base>>
gvars == <<clone_failed, build_failed, built_ok, base_idx, opLog, gpc>>
tvars == <<svars, kvars, uvars, cvars, gvars>>
vars == <<rvars, bvars, fvars, pvars, tvars>>

----------------------------------------------------------------------------
(* Bounds of the model *)

\* longest roots list drawn
MaxRoots == 2
\* most dependencies (package, target) the packages of a dataset declare together
MaxDeps == 4
\* the batch ceiling `to_visit.len().min(100)` (aur.rs:108), scaled so that a
\* wave of the model splits into several chunks
ChunkLimit == 2
\* most records the .SRCINFO files of a mirror hold together
MaxMirrorRecords == 2
\* most dependencies the packages of a dataset with split packages declare together
MaxPlanDeps == 1

----------------------------------------------------------------------------
(* Generic helpers *)

Min(x, y) == IF x < y THEN x ELSE y

SeqToSet(s) == { s[i] : i \in 1..Len(s) }

\* all orders in which the elements of a finite set can be listed
Perms(S) ==
    { p \in [1..Cardinality(S) -> S] : \A i, j \in 1..Cardinality(S) : p[i] = p[j] => i = j }

\* first position of x in s, 0 when absent
RECURSIVE IndexFrom(_, _, _)
IndexFrom(s, x, i) ==
    IF i > Len(s) THEN 0 ELSE IF s[i] = x THEN i ELSE IndexFrom(s, x, i + 1)
IndexOf(s, x) == IndexFrom(s, x, 1)

Count(s, x) == Cardinality({ i \in 1..Len(s) : s[i] = x })

RECURSIVE Reverse(_)
Reverse(s) == IF s = <<>> THEN <<>> ELSE Append(Reverse(Tail(s)), Head(s))

----------------------------------------------------------------------------
(* Names, declarations and the upstream dataset *)

A == <<"a">>
B == <<"b">>
C == <<"c">>
\* a system-repository package: the metadata source has no record for it
S == <<"s">>

AurNames == {A, B, C}
Names == AurNames \cup {S}

OpChars == {"<", ">", "="}

\* A text of a file or of the configuration is a sequence of tokens: a word, or
\* one of the characters the code looks at (" ", "#", "=", "_", "/", ...) alone.
White == {" "}

\* str::trim_start and str::trim_end
RECURSIVE TrimStart(_)
TrimStart(l) ==
    IF l = <<>> THEN <<>>
    ELSE IF Head(l) \in White THEN TrimStart(Tail(l)) ELSE l

RECURSIVE TrimEnd(_)
TrimEnd(l) ==
    IF l = <<>> THEN <<>>
    ELSE IF l[Len(l)] \in White THEN TrimEnd(SubSeq(l, 1, Len(l) - 1)) ELSE l

\* str::trim (aur.rs:384, 389)
Trim(l) == TrimEnd(TrimStart(l))

\* Option<Vec<String>>
None == [some |-> FALSE, v |-> <<>>]
Some(v) == [some |-> TRUE, v |-> v]
\* vec_to_option (aur.rs:494-500); the RPC omits an empty list the same way
VecToOption(v) == IF v = <<>> THEN None ELSE Some(v)

\* How a package of the dataset declares a dependency on target t: the field
\* and the declaration string.  Each of the three fields is the only one to
\* name some package, all three operators occur, and A is declared twice
\* (duplicates are permitted).
DeclsOf(t) ==
    CASE t = A -> << [field |-> "depends", decl |-> <<"a">>],
                     [field |-> "makedepends", decl |-> <<"a", "=", "1">>] >>
      [] t = B -> << [field |-> "makedepends", decl |-> <<"b", ">", "=", "1">>] >>
      [] t = C -> << [field |-> "checkdepends", decl |-> <<"c", "<", "2">>] >>
      [] OTHER -> << [field |-> "depends", decl |-> <<"s", ">", "3">>] >>

TargetOrder == <<A, B, C, S>>

RECURSIVE DeclsOfTargets(_, _)
DeclsOfTargets(T, i) ==
    IF i > Len(TargetOrder) THEN <<>>
    ELSE (IF TargetOrder[i] \in T THEN DeclsOf(TargetOrder[i]) ELSE <<>>)
         \o DeclsOfTargets(T, i + 1)

FieldList(decls, f) ==
    LET sel == SelectSeq(decls, LAMBDA d : d.field = f)
    IN  [i \in 1..Len(sel) |-> sel[i].decl]

\* struct AurInfo (aur.rs:26-40) of package n declaring the targets T
MkInfo(n, T) ==
    LET decls == DeclsOfTargets(T, 1)
    IN  [name |-> n, pkgbase |-> n, version |-> "1-1",
         depends |-> VecToOption(FieldList(decls, "depends")),
         makedepends |-> VecToOption(FieldList(decls, "makedepends")),
         checkdepends |-> VecToOption(FieldList(decls, "checkdepends"))]

\* the datasets: every package has a record, and the records declare at most
\* MaxDeps dependencies between them, on any names, themselves included
Datasets ==
    { [n \in AurNames |-> MkInfo(n, t[n])] :
        t \in { u \in [AurNames -> SUBSET Names] :
                  Cardinality({ e \in AurNames \X Names : e[2] \in u[e[1]] }) <= MaxDeps } }

\* Root lists up to renaming of the packages: the first occurrences of the
\* AUR names in the list come in the order a, b, c.
RECURSIVE FirstOccurrences(_)
FirstOccurrences(s) ==
    IF s = <<>> THEN <<>>
    ELSE LET r == FirstOccurrences(SubSeq(s, 1, Len(s) - 1))
             x == s[Len(s)]
         IN  IF x \in AurNames /\ x \notin SeqToSet(r) THEN Append(r, x) ELSE r

RootLists ==
    { r \in UNION { [1..n -> Names] : n \in 1..MaxRoots } :
        LET f == FirstOccurrences(r) IN f = SubSeq(<<A, B, C>>, 1, Len(f)) }

----------------------------------------------------------------------------
(* Pure functions of aur.rs *)

\* a variant that splits at '=' only
RECURSIVE StripFromEquals(_, _)
StripFromEquals(dep, i) ==
    IF i > Len(dep) \/ dep[i] = "=" THEN SubSeq(dep, 1, i - 1)
    ELSE StripFromEquals(dep, i + 1)

\* strip_version (aur.rs:79-85): the piece before the first '<', '>' or '='
RECURSIVE StripFrom(_, _)
StripFrom(dep, i) ==
    IF i > Len(dep) \/ dep[i] \in OpChars THEN SubSeq(dep, 1, i - 1)
    ELSE StripFrom(dep, i + 1)
strip_version(dep) == StripFrom(dep, 1)

MapStrip(v) == [i \in 1..Len(v) |-> strip_version(v[i])]

\* a plausible slip: checkdepends forgotten
resolve_dep_names_no_check(info) ==
    (IF info.depends.some THEN MapStrip(info.depends.v) ELSE <<>>)
    \o (IF info.makedepends.some THEN MapStrip(info.makedepends.v) ELSE <<>>)

\* resolve_dep_names (aur.rs:87-99)
resolve_dep_names(info) ==
    (IF info.depends.some THEN MapStrip(info.depends.v) ELSE <<>>)
    \o (IF info.makedepends.some THEN MapStrip(info.makedepends.v) ELSE <<>>)
    \o (IF info.checkdepends.some THEN MapStrip(info.checkdepends.v) ELSE <<>>)

\* the dedup loop of fetch_infos (aur.rs:163-169): first occurrences, in order
RECURSIVE Unique(_)
Unique(names) ==
    IF names = <<>> THEN <<>>
    ELSE LET r == Unique(SubSeq(names, 1, Len(names) - 1))
             x == names[Len(names)]
         IN  IF x \in SeqToSet(r) THEN r ELSE Append(r, x)

\* `branches_to_fetch.sort()` and the order of the lines of a .SRCINFO: the
\* names of S in ascending order
Sorted(T) == SelectSeq(TargetOrder, LAMBDA x : x \in T)

\* `package_to_branch.get(pkg).cloned().unwrap_or_else(|| pkg.clone())`
BranchOf(p2b, pkg) == IF pkg \in DOMAIN p2b THEN p2b[pkg] ELSE pkg

\* a plausible slip: the cached branches not filtered out
BranchesToFetchUnfiltered(ch, p2b, cache) ==
    Sorted({ BranchOf(p2b, ch[i]) : i \in 1..Len(ch) })

\* aur.rs:195-206: the branches of the chunk that are not cached, sorted, once each
BranchesToFetch(ch, p2b, cache) ==
    Sorted({ BranchOf(p2b, ch[i]) : i \in 1..Len(ch) } \ DOMAIN cache)

\* aur.rs:211-215: the names of one branch's records enter package_to_branch,
\* an earlier entry kept
RECURSIVE InsertNames(_, _, _)
InsertNames(entries, i, p2b) ==
    IF i > Len(entries) THEN p2b
    ELSE InsertNames(entries, i + 1,
            IF entries[i].name \in DOMAIN p2b THEN p2b
            ELSE p2b @@ (entries[i].name :> entries[i].pkgbase))

\* aur.rs:210-217: the fetched branches, in the order of branches_to_fetch
RECURSIVE InsertFetched(_, _, _)
InsertFetched(fetched, i, st) ==
    IF i > Len(fetched) THEN st
    ELSE InsertFetched(fetched, i + 1,
            [p2b |-> InsertNames(fetched[i].entries, 1, st.p2b),
             cache |-> (fetched[i].branch :> fetched[i].entries) @@ st.cache])

\* `entries.iter().find(|info| info.name == pkg)`
FindNamed(entries, pkg) ==
    LET hits == SelectSeq(entries, LAMBDA e : e.name = pkg)
    IN  IF hits = <<>> THEN None ELSE Some(hits[1])

\* a plausible slip: a second re-queue allowed
RECURSIVE LookupLoopRequeueTwice(_, _, _, _, _)
LookupLoopRequeueTwice(ch, i, st, p2b, cache) ==
    IF i > Len(ch) THEN st
    ELSE LET pkg == ch[i]
             branch == BranchOf(p2b, pkg)
             found == IF branch \in DOMAIN cache THEN FindNamed(cache[branch], pkg) ELSE None
             tried == IF pkg \in DOMAIN st.attempts THEN st.attempts[pkg] ELSE 0
         IN  LookupLoopRequeueTwice(ch, i + 1,
                IF pkg \in DOMAIN st.results THEN st
                ELSE IF found.some
                THEN [st EXCEPT !.results = (pkg :> found.v) @@ st.results]
                ELSE IF tried >= 2
                THEN st
                ELSE [st EXCEPT !.attempts = (pkg :> (tried + 1)) @@ st.attempts,
                                !.queue = Append(st.queue, pkg)],
                p2b, cache)

\* a plausible slip: a hit puts every record of the branch into the results
RECURSIVE LookupLoopTakesSiblings(_, _, _, _, _)
LookupLoopTakesSiblings(ch, i, st, p2b, cache) ==
    IF i > Len(ch) THEN st
    ELSE LET pkg == ch[i]
             branch == BranchOf(p2b, pkg)
             found == IF branch \in DOMAIN cache THEN FindNamed(cache[branch], pkg) ELSE None
             all == [n \in { cache[branch][k].name : k \in 1..Len(cache[branch]) } |->
                        FindNamed(cache[branch], n).v]
         IN  LookupLoopTakesSiblings(ch, i + 1,
                IF pkg \in DOMAIN st.results THEN st
                ELSE IF found.some
                THEN [st EXCEPT !.results = all @@ st.results]
                ELSE IF pkg \in DOMAIN st.attempts /\ st.attempts[pkg] # 0
                THEN st
                ELSE [st EXCEPT !.attempts = (pkg :> 1) @@ st.attempts,
                                !.queue = Append(st.queue, pkg)],
                p2b, cache)

\* aur.rs:220-240: the lookup loop over the chunk
RECURSIVE LookupLoop(_, _, _, _, _)
LookupLoop(ch, i, st, p2b, cache) ==
    IF i > Len(ch) THEN st
    ELSE LET pkg == ch[i]
             branch == BranchOf(p2b, pkg)
             found == IF branch \in DOMAIN cache THEN FindNamed(cache[branch], pkg) ELSE None
         IN  LookupLoop(ch, i + 1,
                IF pkg \in DOMAIN st.results THEN st
                ELSE IF found.some
                THEN [st EXCEPT !.results = (pkg :> found.v) @@ st.results]
                ELSE IF pkg \in DOMAIN st.attempts /\ st.attempts[pkg] # 0
                THEN st
                ELSE [st EXCEPT !.attempts = (pkg :> 1) @@ st.attempts,
                                !.queue = Append(st.queue, pkg)],
                p2b, cache)

\* github_fetch_infos (aur.rs:176-244) when every branch fetch returns Ok: the
\* while loop from the state st, over the mirror m
RECURSIVE GithubLoop(_, _)
GithubLoop(m, st) ==
    IF st.queue = <<>> THEN st.results
    ELSE LET chunk_len == Min(Len(st.queue), ChunkLimit)
             popped == SubSeq(st.queue, 1, chunk_len)
             rest == SubSeq(st.queue, chunk_len + 1, Len(st.queue))
             ch == SelectSeq(popped, LAMBDA pkg : pkg \notin DOMAIN st.results)
             branches_to_fetch == BranchesToFetch(ch, st.p2b, st.cache)
             fetched == [i \in 1..Len(branches_to_fetch) |->
                           [branch |-> branches_to_fetch[i],
                            entries |-> IF branches_to_fetch[i] \in DOMAIN m
                                        THEN m[branches_to_fetch[i]] ELSE <<>>]]
             ins == InsertFetched(fetched, 1, [p2b |-> st.p2b, cache |-> st.cache])
             lk == LookupLoop(ch, 1,
                      [results |-> st.results, attempts |-> st.attempts, queue |-> rest],
                      ins.p2b, ins.cache)
         IN  GithubLoop(m, [queue |-> lk.queue, attempts |-> lk.attempts,
                            results |-> lk.results, p2b |-> ins.p2b, cache |-> ins.cache])

GithubFetch(m, unique) ==
    GithubLoop(m, [queue |-> unique, attempts |-> << >>, results |-> << >>,
                   p2b |-> << >>, cache |-> << >>])

\* the records a successful fetch_infos (aur.rs:159-174) yields, by name: the
\* RPC's records of the requested names, or what the Mirror finds for them
FetchedMap(names) ==
    IF names = <<>> THEN << >>
    ELSE IF source = "github" THEN GithubFetch(mirror, Unique(names))
    ELSE [n \in SeqToSet(Unique(names)) \cap DOMAIN db |-> db[n]]

\* What a successful fetch_infos (aur.rs:159-174) can return for `names`: the
\* records found for the distinct requested names, in any order (the RPC's
\* answer order and the Mirror's HashMap order are not fixed).
FetchAnswers(names) ==
    LET got == FetchedMap(names)
    IN  { [i \in 1..Len(p) |-> got[p[i]]] : p \in Perms(DOMAIN got) }

\* the loop `for info in fetched` (aur.rs:116-124) from position i
RECURSIVE ProcessFetched(_, _, _)
ProcessFetched(fetched, i, st) ==
    IF i > Len(fetched) THEN st
    ELSE LET info == fetched[i]
             name == info.name
         IN  IF name \in st.seen
             THEN ProcessFetched(fetched, i + 1, st)
             ELSE ProcessFetched(fetched, i + 1,
                    [seen |-> st.seen \cup {name},
                     to_visit |-> st.to_visit \o resolve_dep_names(info),
                     infos |-> [k \in DOMAIN st.infos \cup {name} |->
                                  IF k = name THEN info ELSE st.infos[k]]])

Ok(order) == [tag |-> "ok", order |-> order, err |-> "none"]
Err(kind) == [tag |-> "err", order |-> <<>>, err |-> kind]
NoResult == [tag |-> "none", order |-> <<>>, err |-> "none"]
NoGraph == [nodes |-> <<>>, edges |-> <<>>]

----------------------------------------------------------------------------
(* The graph and petgraph's toposort, as resolve_build_order uses them.     *)
(* Nodes are indices 1..n into `nodes` (NodeIndex); an edge is <<from, to>>.*)

\* a plausible slip: the roots become nodes as well as the resolved packages
GraphNodesWithRoots(keys) == keys \o roots

\* `for name in infos.keys() { g.add_node(name) }` (aur.rs:130-133); keys is the
\* order in which the HashMap hands out its keys
GraphNodes(keys) == keys

\* index: HashMap<String, NodeIndex>; a later insert of a name replaces the earlier
RECURSIVE LastIndexFrom(_, _, _)
LastIndexFrom(s, x, i) ==
    IF i = 0 THEN 0 ELSE IF s[i] = x THEN i ELSE LastIndexFrom(s, x, i - 1)
NodeIndexOf(nodes, name) == LastIndexFrom(nodes, name, Len(nodes))

\* a plausible slip: the edge added the wrong way round
EdgeForReversed(to, from) == <<from, to>>

\* g.add_edge(*to, *from, ()) (aur.rs:138-139): the edge runs dep -> pkg
EdgeFor(to, from) == <<to, from>>

\* a plausible slip: a dependency without a node gets one (here: is not skipped)
DepHasNodeAlways(nodes, d) == TRUE

\* `if let Some(to) = index.get(&d)` (aur.rs:137)
DepHasNode(nodes, d) == NodeIndexOf(nodes, d) # 0

\* a plausible slip: a dependency on the package itself adds no edge
RECURSIVE EdgesOfPkgSkipSelf(_, _, _, _)
EdgesOfPkgSkipSelf(nodes, name, deps, j) ==
    IF j > Len(deps) THEN <<>>
    ELSE (IF DepHasNode(nodes, deps[j]) /\ deps[j] # name
          THEN << EdgeFor(NodeIndexOf(nodes, deps[j]), NodeIndexOf(nodes, name)) >>
          ELSE <<>>)
         \o EdgesOfPkgSkipSelf(nodes, name, deps, j + 1)

\* the inner loop `for d in resolve_dep_names(info)` (aur.rs:136-141) from position j
RECURSIVE EdgesOfPkg(_, _, _, _)
EdgesOfPkg(nodes, name, deps, j) ==
    IF j > Len(deps) THEN <<>>
    ELSE (IF DepHasNode(nodes, deps[j])
          THEN << EdgeFor(NodeIndexOf(nodes, deps[j]), NodeIndexOf(nodes, name)) >>
          ELSE <<>>)
         \o EdgesOfPkg(nodes, name, deps, j + 1)

\* a plausible slip: the edges are built from the depends field alone
RECURSIVE GraphEdgesDependsOnly(_, _, _, _)
GraphEdgesDependsOnly(nodes, keys, map, i) ==
    IF i > Len(keys) THEN <<>>
    ELSE EdgesOfPkg(nodes, keys[i],
                    IF map[keys[i]].depends.some THEN MapStrip(map[keys[i]].depends.v) ELSE <<>>,
                    1)
         \o GraphEdgesDependsOnly(nodes, keys, map, i + 1)

\* the loop `for (name, info) in &infos` (aur.rs:134-142) from position i of keys
RECURSIVE GraphEdges(_, _, _, _)
GraphEdges(nodes, keys, map, i) ==
    IF i > Len(keys) THEN <<>>
    ELSE EdgesOfPkg(nodes, keys[i], resolve_dep_names(map[keys[i]]), 1)
         \o GraphEdges(nodes, keys, map, i + 1)

\* aur.rs:128-142
BuildGraph(keys, map) ==
    LET nodes == GraphNodes(keys)
    IN  [nodes |-> nodes, edges |-> GraphEdges(nodes, keys, map, 1)]

\* g.neighbors(x): the targets of x's outgoing edges, the edge added last first
OutNeighbors(edges, x) ==
    LET sel == SelectSeq(edges, LAMBDA e : e[1] = x)
    IN  Reverse([k \in 1..Len(sel) |-> sel[k][2]])

\* Reversed(g).neighbors(x): the sources of x's incoming edges, the edge added last first
InNeighbors(edges, x) ==
    LET sel == SelectSeq(edges, LAMBDA e : e[2] = x)
    IN  Reverse([k \in 1..Len(sel) |-> sel[k][1]])

\* toposort, first pass: `while let Some(&nx) = dfs.stack.last()`
RECURSIVE DfsFinish(_, _, _, _, _)
DfsFinish(edges, stack, disc, fin, fs) ==
    IF stack = <<>> THEN [cycle |-> FALSE, node |-> 0, disc |-> disc, fin |-> fin, fs |-> fs]
    ELSE LET nx == stack[Len(stack)] IN
         IF nx \notin disc
         THEN LET succs == OutNeighbors(edges, nx) IN
              IF nx \in SeqToSet(succs)
              THEN [cycle |-> TRUE, node |-> nx, disc |-> disc, fin |-> fin, fs |-> fs]
              ELSE DfsFinish(edges,
                             stack \o SelectSeq(succs, LAMBDA x : x \notin disc \cup {nx}),
                             disc \cup {nx}, fin, fs)
         ELSE DfsFinish(edges, SubSeq(stack, 1, Len(stack) - 1), disc,
                        fin \cup {nx},
                        IF nx \in fin THEN fs ELSE Append(fs, nx))

\* toposort, first pass: `for i in g.node_identifiers().rev()`
RECURSIVE FinishAll(_, _, _, _, _)
FinishAll(edges, i, disc, fin, fs) ==
    IF i = 0 THEN [cycle |-> FALSE, node |-> 0, disc |-> disc, fin |-> fin, fs |-> fs]
    ELSE IF i \in disc THEN FinishAll(edges, i - 1, disc, fin, fs)
    ELSE LET r == DfsFinish(edges, <<i>>, disc, fin, fs)
         IN  IF r.cycle THEN r ELSE FinishAll(edges, i - 1, r.disc, r.fin, r.fs)

\* Dfs::next on the reversed graph: the next node not discovered before, 0 for None
RECURSIVE DfsNext(_, _, _)
DfsNext(edges, stack, disc) ==
    IF stack = <<>> THEN [node |-> 0, stack |-> stack, disc |-> disc]
    ELSE LET node == stack[Len(stack)]
             rest == SubSeq(stack, 1, Len(stack) - 1)
         IN  IF node \notin disc
             THEN [node |-> node,
                   stack |-> rest \o SelectSeq(InNeighbors(edges, node),
                                                LAMBDA x : x \notin disc \cup {node}),
                   disc |-> disc \cup {node}]
             ELSE DfsNext(edges, rest, disc)

\* toposort, second pass: `for &i in &finish_stack`, a second node reached from i
\* on the reversed graph is a cycle
RECURSIVE CheckOrder(_, _, _, _)
CheckOrder(edges, fs, k, disc) ==
    IF k > Len(fs) THEN [cycle |-> FALSE, node |-> 0]
    ELSE LET first == DfsNext(edges, <<fs[k]>>, disc) IN
         IF first.node = 0 THEN CheckOrder(edges, fs, k + 1, first.disc)
         ELSE LET second == DfsNext(edges, first.stack, first.disc) IN
              IF second.node # 0 THEN [cycle |-> TRUE, node |-> second.node]
              ELSE CheckOrder(edges, fs, k + 1, second.disc)

\* petgraph::algo::toposort(&g, None) over n nodes: Ok(order of indices) or Err(Cycle(node))
Toposort(n, edges) ==
    LET p1 == FinishAll(edges, n, {}, {}, <<>>) IN
    IF p1.cycle THEN [cycle |-> TRUE, node |-> p1.node, order |-> <<>>]
    ELSE LET fs == Reverse(p1.fs)
             p2 == CheckOrder(edges, fs, 1, {})
         IN  IF p2.cycle THEN [cycle |-> TRUE, node |-> p2.node, order |-> <<>>]
             ELSE [cycle |-> FALSE, node |-> 0, order |-> fs]

\* aur.rs:144-156: the error, or the node names in sorted order through both filters
OrderResult(g, map, ts) ==
    IF ts.cycle THEN Err("cycle")
    ELSE LET names == [k \in 1..Len(ts.order) |-> g.nodes[ts.order[k]]]
             order == SelectSeq(names, LAMBDA x : x \in SeqToSet(roots) \/ x \in DOMAIN map)
         IN  Ok(SelectSeq(order, LAMBDA x : x \in DOMAIN map))

----------------------------------------------------------------------------
(* fetch_branch_srcinfo and fetch_srcinfo_from_url (aur.rs:288-364): data *)

\* GITHUB_SRCINFO_MAX_RETRIES
GITHUB_SRCINFO_MAX_RETRIES == 3
\* GITHUB_SRCINFO_RETRY_DELAY_SECS
GITHUB_SRCINFO_RETRY_DELAY_SECS == 2

\* the candidate URLs of a branch, in the order of `urls` (aur.rs:289-296):
\* <base>/<branch>, <base>/master/<branch>, <base>/main/<branch>
Urls == <<"branch", "master", "main">>

\* the arguments of the one call SpecBranch follows: raw_base and branch
RawBaseArg == "R"
BranchArg == "foo"

\* a plausible slip: the two default branches tried in the other order
CandidateUrlMainFirst(raw_base, branch, i) ==
    IF i = 1 THEN <<raw_base, branch, ".SRCINFO">>
    ELSE <<raw_base, <<"branch", "main", "master">>[i], branch, ".SRCINFO">>

\* a variant that tries the top-level ref after the two default branches
CandidateUrlTopLevelLast(raw_base, branch, i) ==
    IF i = 3 THEN <<raw_base, branch, ".SRCINFO">>
    ELSE <<raw_base, <<"master", "main">>[i], branch, ".SRCINFO">>

\* the i-th element of `urls` (aur.rs:289-296), as its path segments:
\* format!("{}/{}/.SRCINFO"), then format!("{}/{}/{}/.SRCINFO") per default branch
CandidateUrl(raw_base, branch, i) ==
    IF i = 1 THEN <<raw_base, branch, ".SRCINFO">>
    ELSE <<raw_base, Urls[i], branch, ".SRCINFO">>

\* What one `client.get(url).timeout(..).send()` can come back with: a timeout,
\* another transport error, or a response.  A response has a status class (404,
\* another 4xx or 5xx, 2xx, or a 1xx/3xx status, which reqwest's error_for_status
\* lets pass like a 2xx) and, when the status passes, a body that cannot be
\* read, does not parse as SRCINFO, or parses.
Outcomes ==
    { [send |-> "timeout", status |-> "none", body |-> "none"],
      [send |-> "transport", status |-> "none", body |-> "none"],
      [send |-> "response", status |-> "404", body |-> "none"],
      [send |-> "response", status |-> "4xx5xx", body |-> "none"] }
    \cup [send : {"response"}, status : {"2xx", "1xx3xx"},
          body : {"unreadable", "garbage", "srcinfo"}]

NoError == [url |-> 0, kind |-> "none"]
NoBranchResult == [tag |-> "none", from |-> 0, err |-> NoError]

----------------------------------------------------------------------------
(* resolve_build_order (aur.rs:101-157) *)

\* the Result of fetch_infos: the records keyed by name, or the error
FetchOk(m) == [tag |-> "ok", infos |-> m, err |-> "none"]
FetchErr(kind) == [tag |-> "err", infos |-> << >>, err |-> kind]
NoFetchResult == [tag |-> "none", infos |-> << >>, err |-> "none"]

PlanIdle ==
    /\ info_for_order = << >>
    /\ pkgbases = <<>>
    /\ ppc = "idle"

\* parse_srcinfo is not running
ParseIdle ==
    /\ contents = <<>>
    /\ parsed = [tag |-> "none", infos |-> <<>>, err |-> "none"]
    /\ spc = "idle"

\* strip_version is not running
StripIdle ==
    /\ dep_arg = <<>>
    /\ stripped = <<>>

\* the update detection is not running
UpdateIdle ==
    /\ foreign = << >>
    /\ latest = << >>
    /\ foreign_iter = <<>>
    /\ cmpLog = << >>
    /\ outdated = <<>>
    /\ upc = "idle"

\* the clone and build steps are not running
BuildIdle ==
    /\ clone_failed = <<>>
    /\ build_failed = <<>>
    /\ built_ok = <<>>
    /\ base_idx = 0
    /\ opLog = <<>>
    /\ gpc = "idle"

ToolsIdle == ParseIdle /\ StripIdle /\ UpdateIdle /\ BuildIdle

\* fetch_infos is not running
FetchNotCalled ==
    /\ mirror_base = None
    /\ base_ok = TRUE
    /\ names_arg = <<>>
    /\ queue = <<>>
    /\ attempts = << >>
    /\ branch_cache = << >>
    /\ package_to_branch = << >>
    /\ results = << >>
    /\ chunk = <<>>
    /\ workers = << >>
    /\ fresult = NoFetchResult
    /\ fpc = "idle"
    /\ rpcLog = <<>>
    /\ branchLog = <<>>
    /\ takeLog = <<>>
    /\ taskLog = << >>

FetchIdle ==
    /\ source = "official"
    /\ mirror = << >>
    /\ FetchNotCalled

BranchIdle ==
    /\ urlIdx = 0
    /\ attempt = 0
    /\ lastErr = NoError
    /\ bresult = NoBranchResult
    /\ bpc = "idle"
    /\ reqLog = <<>>

\* aur.rs:103-105, for any dataset and any root list of the bounds
Init ==
    /\ roots \in RootLists
    /\ db \in Datasets
    /\ to_visit = roots
    /\ seen = {}
    /\ infos = << >>
    /\ graph = NoGraph
    /\ result = NoResult
    /\ pc = "discover"
    /\ fetchLog = <<>>
    /\ fetchFailed = FALSE
    /\ run = 1
    /\ firstResult = NoResult
    /\ BranchIdle
    /\ FetchIdle
    /\ PlanIdle
    /\ ToolsIdle

\* aur.rs:108-110: the drained chunk without the visited names, and what is left
Drained == SubSeq(to_visit, 1, Min(Len(to_visit), ChunkLimit))
\* a variant that leaves the queue as it is when every drained name was visited
RemainingKeepsVisited ==
    IF SelectSeq(Drained, LAMBDA n : n \notin seen) = <<>> THEN to_visit
    ELSE SubSeq(to_visit, Min(Len(to_visit), ChunkLimit) + 1, Len(to_visit))

Remaining == SubSeq(to_visit, Min(Len(to_visit), ChunkLimit) + 1, Len(to_visit))
Chunk == SelectSeq(Drained, LAMBDA name : name \notin seen)

\* a plausible slip: a failed fetch ends discovery and what was resolved is sorted
FetchFailedKeepGoing ==
    /\ to_visit' = <<>>
    /\ UNCHANGED <<pc, result>>

\* `fetch_infos(cfg, client, &chunk)?` returning Err (aur.rs:115): the call returns it
FetchFailedReturn ==
    /\ to_visit' = Remaining
    /\ pc' = "done"
    /\ result' = Err("fetch")

\* one iteration of `while !to_visit.is_empty()` (aur.rs:107-125)
Discover ==
    /\ pc = "discover"
    /\ to_visit # <<>>
    /\ IF Chunk = <<>>
       THEN /\ to_visit' = Remaining
            /\ UNCHANGED <<seen, infos, pc, result, fetchLog, fetchFailed>>
       ELSE /\ fetchLog' = Append(fetchLog, Unique(Chunk))
            /\ \/ /\ fetchFailed' = TRUE
                  /\ FetchFailedReturn
                  /\ UNCHANGED <<seen, infos>>
               \/ \E fetched \in FetchAnswers(Chunk) :
                     \E st \in {ProcessFetched(fetched, 1,
                                 [seen |-> seen, to_visit |-> Remaining, infos |-> infos])} :
                         /\ seen' = st.seen
                         /\ to_visit' = st.to_visit
                         /\ infos' = st.infos
                         /\ UNCHANGED <<pc, result, fetchFailed>>
    /\ UNCHANGED <<roots, db, graph, run, firstResult, bvars, fvars, pvars, tvars>>

\* aur.rs:127-156, once the queue is empty; keys is the order in which the
\* HashMap `infos` iterates, which RandomState does not fix
Sort ==
    /\ pc = "discover"
    /\ to_visit = <<>>
    /\ \E keys \in Perms(DOMAIN infos) :
          \E g \in {BuildGraph(keys, infos)} :
              /\ graph' = g
              /\ result' = OrderResult(g, infos, Toposort(Len(g.nodes), g.edges))
    /\ pc' = "done"
    /\ UNCHANGED <<roots, db, to_visit, seen, infos, fetchLog, fetchFailed, run,
                   firstResult, bvars, fvars, pvars, tvars>>

\* the caller resolves the same roots again: a fresh call, the dataset unchanged
ResolveAgain ==
    /\ pc = "done"
    /\ run = 1
    /\ run' = 2
    /\ firstResult' = result
    /\ to_visit' = roots
    /\ seen' = {}
    /\ infos' = << >>
    /\ graph' = NoGraph
    /\ result' = NoResult
    /\ pc' = "discover"
    /\ fetchLog' = <<>>
    /\ fetchFailed' = FALSE
    /\ UNCHANGED <<roots, db, bvars, fvars, pvars, tvars>>

Next == Discover \/ Sort

Spec == Init /\ [][Next]_vars

\* the step that leaves the loop for the sort (aur.rs:107, 127), told by pc alone
SortStep == pc = "discover" /\ to_visit = <<>> /\ pc' = "done"

\* the call runs on: a loop iteration ends, fetch_infos being a blocking call
\* that returns (every request has a timeout, aur.rs:324), and the sort
\* follows the loop; under Next a SortStep that changes pc is a Sort step
\* over the calls for one or two roots
InitLive == Init /\ Len(roots) <= 2

SpecLive == InitLive /\ [][Next]_vars /\ WF_vars(Discover) /\ WF_pc(SortStep)

NextTwice == Discover \/ Sort \/ ResolveAgain

SpecTwice == Init /\ [][NextTwice]_vars

----------------------------------------------------------------------------
(* What the claims speak of, stated without the operators of the code *)

\* D is the version-stripped form of the declaration e
IsStrippedFormOf(D, e) ==
    /\ Len(D) <= Len(e)
    /\ SubSeq(e, 1, Len(D)) = D
    /\ \A i \in 1..Len(D) : D[i] \notin OpChars
    /\ Len(D) = Len(e) \/ e[Len(D) + 1] \in OpChars

DeclaredEntries(info) ==
    SeqToSet(info.depends.v) \cup SeqToSet(info.makedepends.v) \cup SeqToSet(info.checkdepends.v)

\* the record info declares a dependency on the name D
DependsOn(info, D) == \E e \in DeclaredEntries(info) : IsStrippedFormOf(D, e)

\* the least set containing R and closed under the declared dependencies
\* the source has a record for
RECURSIVE ClosureFrom(_)
ClosureFrom(R) ==
    LET nxt == R \cup { d \in DOMAIN db : \E p \in R : DependsOn(db[p], d) }
    IN  IF nxt = R THEN R ELSE ClosureFrom(nxt)

TransitiveClosure == ClosureFrom({ r \in SeqToSet(roots) : r \in DOMAIN db })

\* the names of map reachable from the set R along declared dependencies
RECURSIVE ReachIn(_, _)
ReachIn(map, R) ==
    LET nxt == R \cup { d \in DOMAIN map : \E p \in R : DependsOn(map[p], d) }
    IN  IF nxt = R THEN R ELSE ReachIn(map, nxt)

\* the packages of map contain a dependency cycle (a self-dependency included)
HasCycle(map) ==
    \E n \in DOMAIN map :
        n \in ReachIn(map, { d \in DOMAIN map : DependsOn(map[n], d) })

Returned == pc = "done"
Succeeded == pc = "done" /\ result.tag = "ok"

----------------------------------------------------------------------------
(* Claims about resolve_build_order *)

\* C1: when resolve_build_order succeeds, every name D of the returned list that
\* is the version-stripped form of a depends, makedepends or checkdepends entry
\* of another name P of the list stands at a smaller index than P.
C1_DependenciesFirst ==
    Succeeded =>
        \A i, j \in 1..Len(result.order) :
            (/\ result.order[i] # result.order[j]
             /\ DependsOn(infos[result.order[j]], result.order[i])) => i < j

\* the chain of the example: root a depends on b depends on c, returned as [c, b, a]
C1_Witness ==
    /\ Succeeded
    /\ roots = <<A>>
    /\ DependsOn(db[A], B) /\ DependsOn(db[B], C)
    /\ result.order = <<C, B, A>>

\* C2: when the resolved packages contain a dependency cycle the call returns an
\* error and no ordered list; the error is the cycle error unless a fetch failed.
C2_CycleIsError ==
    (Returned /\ HasCycle(infos)) =>
        /\ result.tag = "err"
        /\ result.order = <<>>
        /\ ~fetchFailed => result.err = "cycle"

\* the cycle of the example: a depends on b and b depends on a
C2_Witness ==
    /\ Returned
    /\ ~fetchFailed
    /\ {A, B} \subseteq DOMAIN infos
    /\ DependsOn(infos[A], B) /\ DependsOn(infos[B], A)
    /\ result = Err("cycle")

\* C3: when the call succeeds the returned names are exactly the transitive
\* closure: the roots the source has a record for and, from there on, every
\* declared dependency the source has a record for.
C3_TransitiveClosure ==
    Succeeded => SeqToSet(result.order) = TransitiveClosure

\* a closure of three packages reached from one root through two waves
C3_Witness ==
    /\ Succeeded
    /\ roots = <<A>>
    /\ TransitiveClosure = {A, B, C}
    /\ ~DependsOn(db[A], C)
    /\ SeqToSet(result.order) = {A, B, C}

\* C4: a name the source has no record for is never a node nor an edge endpoint
\* of the graph and never in the output, and the call does not fail because of
\* it: without a fetch failure and without a cycle the resolved packages are
\* ordered and returned.
C4_UnresolvedDropped ==
    /\ \A k \in 1..Len(graph.nodes) : graph.nodes[k] \in DOMAIN db
    /\ \A k \in 1..Len(graph.edges) :
          /\ graph.edges[k][1] \in 1..Len(graph.nodes)
          /\ graph.edges[k][2] \in 1..Len(graph.nodes)
    /\ \A k \in 1..Len(result.order) : result.order[k] \in DOMAIN db
    /\ (seen \cup DOMAIN infos) \subseteq DOMAIN db
    /\ (Returned /\ ~fetchFailed /\ ~HasCycle(infos)) =>
          /\ result.tag = "ok"
          /\ SeqToSet(result.order) = DOMAIN infos

\* a call that succeeds although a root and a dependency have no record
C4_Witness ==
    /\ Succeeded
    /\ S \in SeqToSet(roots)
    /\ \E k \in 1..Len(result.order) : DependsOn(infos[result.order[k]], S)
    /\ Len(graph.edges) > 0

\* C5: the returned list holds every name of the result map exactly once and no
\* other name, and at every iteration of the discovery loop the visited set is
\* the key set of the result map.
C5_EachNameOnce ==
    /\ seen = DOMAIN infos
    /\ Succeeded =>
          /\ \A n \in DOMAIN infos : Count(result.order, n) = 1
          /\ SeqToSet(result.order) \subseteq DOMAIN infos

\* duplicate roots, and c reachable both directly and through b
C5_Witness ==
    /\ Succeeded
    /\ roots = <<A, A>>
    /\ DependsOn(db[A], B) /\ DependsOn(db[A], C) /\ DependsOn(db[B], C)
    /\ Len(result.order) = 3

\* C6: resolving the same roots twice against the unchanged dataset returns the
\* identical ordered list, the order of unconstrained packages included.
C6_SameOrderTwice ==
    (run = 2 /\ Succeeded /\ firstResult.tag = "ok") => result.order = firstResult.order

\* C7: a failed fetch makes the call return that failure at once, with no
\* ordered list, whatever earlier waves resolved.
C7_FetchFailureReturned ==
    fetchFailed => (pc = "done" /\ result = Err("fetch") /\ result.order = <<>>)

\* a fetch that fails after an earlier wave has resolved a package
C7_Witness ==
    /\ fetchFailed
    /\ Returned
    /\ DOMAIN infos # {}
    /\ Len(fetchLog) >= 2

----------------------------------------------------------------------------
(* fetch_branch_srcinfo and fetch_srcinfo_from_url (aur.rs:288-364): steps *)

\* a plausible slip: any transport error is retried, not only a timeout
AttemptResultRetryAny(att, o) ==
    IF o.send = "response"
    THEN IF o.status = "404" THEN [kind |-> "none", err |-> "none"]
         ELSE IF o.status = "4xx5xx" THEN [kind |-> "err", err |-> "status"]
         ELSE IF o.body = "unreadable" THEN [kind |-> "err", err |-> "read"]
         ELSE IF o.body = "garbage" THEN [kind |-> "err", err |-> "parse"]
         ELSE [kind |-> "some", err |-> "none"]
    ELSE IF att + 1 # GITHUB_SRCINFO_MAX_RETRIES
         THEN [kind |-> "retry", err |-> "none"]
         ELSE [kind |-> "err", err |-> "unreachable"]

\* a plausible slip: a timeout on the last attempt reports the URL absent
AttemptResultExhaustedAbsent(att, o) ==
    IF o.send = "response"
    THEN IF o.status = "404" THEN [kind |-> "none", err |-> "none"]
         ELSE IF o.status = "4xx5xx" THEN [kind |-> "err", err |-> "status"]
         ELSE IF o.body = "unreadable" THEN [kind |-> "err", err |-> "read"]
         ELSE IF o.body = "garbage" THEN [kind |-> "err", err |-> "parse"]
         ELSE [kind |-> "some", err |-> "none"]
    ELSE IF o.send = "timeout"
         THEN IF att + 1 # GITHUB_SRCINFO_MAX_RETRIES
              THEN [kind |-> "retry", err |-> "none"]
              ELSE [kind |-> "none", err |-> "none"]
         ELSE [kind |-> "err", err |-> "unreachable"]

\* the body of the attempt loop (aur.rs:322-360) for the outcome o of attempt att:
\* return Ok(Some) "some", return Ok(None) "none", return Err "err", or sleep and
\* `continue` "retry"
AttemptResult(att, o) ==
    IF o.send = "response"
    THEN IF o.status = "404" THEN [kind |-> "none", err |-> "none"]
         ELSE IF o.status = "4xx5xx" THEN [kind |-> "err", err |-> "status"]
         ELSE IF o.body = "unreadable" THEN [kind |-> "err", err |-> "read"]
         ELSE IF o.body = "garbage" THEN [kind |-> "err", err |-> "parse"]
         ELSE [kind |-> "some", err |-> "none"]
    ELSE LET is_last == att + 1 = GITHUB_SRCINFO_MAX_RETRIES IN
         IF o.send = "timeout" /\ ~is_last
         THEN [kind |-> "retry", err |-> "none"]
         ELSE [kind |-> "err", err |-> "unreachable"]

\* a variant whose attempt loop ends one attempt early, so that a timeout on
\* the attempt before the last leaves the loop
UrlResultShortLoop(att, o) ==
    LET r == AttemptResult(att, o) IN
    IF r.kind = "retry" /\ att + 2 >= GITHUB_SRCINFO_MAX_RETRIES
    THEN [kind |-> "none", err |-> "none"]
    ELSE r

\* what fetch_srcinfo_from_url returns once attempt att had outcome o, "retry"
\* while it goes on; leaving the `for` loop returns Ok(None) (aur.rs:321, 363)
UrlResult(att, o) ==
    LET r == AttemptResult(att, o) IN
    IF r.kind = "retry" /\ att + 1 >= GITHUB_SRCINFO_MAX_RETRIES
    THEN [kind |-> "none", err |-> "none"]
    ELSE r

\* a plausible slip: an absent candidate forgets the error of an earlier one
LastErrAfterForgetful(prev, url, r) ==
    IF r.kind = "err" THEN [url |-> url, kind |-> r.err] ELSE NoError

\* a variant that keeps the error of the first failing candidate
LastErrAfterKeepsFirst(prev, url, r) ==
    IF r.kind = "err" /\ prev = NoError THEN [url |-> url, kind |-> r.err] ELSE prev

\* `Err(e) => { last_err = Some(e); }`, `Ok(None) => continue` (aur.rs:302-305)
LastErrAfter(prev, url, r) ==
    IF r.kind = "err" THEN [url |-> url, kind |-> r.err] ELSE prev

\* a plausible slip: a branch that no candidate URL has is an error
AfterLastUrlNotFoundIsError(err) ==
    IF err # NoError THEN [tag |-> "err", from |-> 0, err |-> err]
    ELSE [tag |-> "err", from |-> 0, err |-> [url |-> Len(Urls), kind |-> "notfound"]]

\* aur.rs:309-313, after the last candidate
AfterLastUrl(err) ==
    IF err # NoError THEN [tag |-> "err", from |-> 0, err |-> err]
    ELSE [tag |-> "ok", from |-> 0, err |-> NoError]

ResolverIdle ==
    /\ roots = <<>>
    /\ db = << >>
    /\ to_visit = <<>>
    /\ seen = {}
    /\ infos = << >>
    /\ graph = NoGraph
    /\ result = NoResult
    /\ pc = "idle"
    /\ fetchLog = <<>>
    /\ fetchFailed = FALSE
    /\ run = 1
    /\ firstResult = NoResult

\* fetch_branch_srcinfo entered: the first candidate, no error yet (aur.rs:289-299)
InitBranch ==
    /\ ResolverIdle
    /\ FetchIdle
    /\ PlanIdle
    /\ ToolsIdle
    /\ urlIdx = 1
    /\ attempt = 0
    /\ lastErr = NoError
    /\ bresult = NoBranchResult
    /\ bpc = "fetch"
    /\ reqLog = <<>>

\* One HTTP request and what the two loops do with its outcome: one iteration of
\* the attempt loop of fetch_srcinfo_from_url (aur.rs:321-361) and, when that
\* function returns, the match arm of fetch_branch_srcinfo (aur.rs:299-313).
Request ==
    /\ bpc = "fetch"
    /\ \E o \in Outcomes :
          LET r == UrlResult(attempt, o)
              err == LastErrAfter(lastErr, urlIdx, r)
          IN  /\ reqLog' = Append(reqLog,
                     [url |-> urlIdx, to |-> CandidateUrl(RawBaseArg, BranchArg, urlIdx),
                      attempt |-> attempt, outcome |-> o, then |-> r.kind,
                      slept |-> IF r.kind = "retry" THEN GITHUB_SRCINFO_RETRY_DELAY_SECS ELSE 0])
              /\ IF r.kind = "retry"
                 THEN /\ attempt' = attempt + 1
                      /\ UNCHANGED <<urlIdx, lastErr, bresult, bpc>>
                 ELSE IF r.kind = "some"
                 THEN /\ bresult' = [tag |-> "ok", from |-> urlIdx, err |-> NoError]
                      /\ bpc' = "done"
                      /\ UNCHANGED <<urlIdx, attempt, lastErr>>
                 ELSE /\ lastErr' = err
                      /\ IF urlIdx < Len(Urls)
                         THEN /\ urlIdx' = urlIdx + 1
                              /\ attempt' = 0
                              /\ UNCHANGED <<bresult, bpc>>
                         ELSE /\ bresult' = AfterLastUrl(err)
                              /\ bpc' = "done"
                              /\ UNCHANGED <<urlIdx, attempt>>
    /\ UNCHANGED <<rvars, fvars, pvars, tvars>>

NextBranch == Request

SpecBranch == InitBranch /\ [][NextBranch]_vars

----------------------------------------------------------------------------
(* Claims about fetch_branch_srcinfo and fetch_srcinfo_from_url *)

BranchReturned == bpc = "done"

\* request k got a response that passed the status check with a body that parsed
Parsed(k) ==
    /\ reqLog[k].outcome.send = "response"
    /\ reqLog[k].outcome.status \in {"2xx", "1xx3xx"}
    /\ reqLog[k].outcome.body = "srcinfo"

\* request k was answered with a status that is neither 2xx nor 404
BadStatus(k) ==
    /\ reqLog[k].outcome.send = "response"
    /\ reqLog[k].outcome.status \notin {"2xx", "404"}

\* request k was the third consecutive timeout on its URL
RetriesExhausted(k) ==
    /\ reqLog[k].outcome.send = "timeout"
    /\ reqLog[k].attempt + 1 = GITHUB_SRCINFO_MAX_RETRIES

\* after request k the branch fetch failed, unless a later candidate URL parsed,
\* and then it returned the records of that candidate
FailsUnlessLaterParsed(k) ==
    IF \E j \in (k + 1)..Len(reqLog) : Parsed(j)
    THEN \E j \in (k + 1)..Len(reqLog) :
            /\ Parsed(j)
            /\ reqLog[j].url > reqLog[k].url
            /\ bresult = [tag |-> "ok", from |-> reqLog[j].url, err |-> NoError]
    ELSE bresult.tag = "err"

C10_BoundedRetries ==
    /\ \A u \in 1..Len(Urls) :
          Cardinality({ k \in 1..Len(reqLog) : reqLog[k].url = u }) <= 3
    /\ \A k \in 1..Len(reqLog) : \A j \in (k + 1)..Len(reqLog) :
          reqLog[j].url = reqLog[k].url =>
              /\ reqLog[k].outcome.send = "timeout"
              /\ reqLog[k].slept = 2
    /\ \A k \in 1..Len(reqLog) :
          reqLog[k].outcome.send = "transport" =>
              /\ reqLog[k].then = "err"
              /\ \A j \in 1..Len(reqLog) : (j # k /\ reqLog[j].url = reqLog[k].url) => j < k

\* three timeouts in a row on the first candidate, then a timeout and a
\* transport error on the second
C10_Witness ==
    /\ Len(reqLog) = 5
    /\ \A k \in 1..3 : reqLog[k].url = 1 /\ reqLog[k].outcome.send = "timeout"
    /\ reqLog[4].url = 2 /\ reqLog[4].outcome.send = "timeout"
    /\ reqLog[5].url = 2 /\ reqLog[5].outcome.send = "transport"
    /\ urlIdx = 3

----------------------------------------------------------------------------
(* fetch_infos and github_fetch_infos (aur.rs:159-259) *)

\* a record of a .SRCINFO whose pkgbase line says `base`
SplitInfo(n, base) == [MkInfo(n, {}) EXCEPT !.pkgbase = base]

\* the records parse_srcinfo yields for one .SRCINFO: one per pkgname, all
\* with the pkgbase of the file
SrcInfos ==
    { [i \in 1..Len(Sorted(ns)) |-> SplitInfo(Sorted(ns)[i], base)] :
        base \in AurNames, ns \in (SUBSET AurNames) \ {{}} }

RECURSIVE SumLen(_, _)
SumLen(m, D) ==
    IF D = {} THEN 0
    ELSE LET b == CHOOSE x \in D : TRUE IN Len(m[b]) + SumLen(m, D \ {b})

\* the mirrors: some branches exist, each with the records of its .SRCINFO,
\* under any pkgbase and for any names
Mirrors ==
    UNION { { m \in [D -> SrcInfos] : SumLen(m, D) <= MaxMirrorRecords } :
              D \in SUBSET AurNames }

\* the mirrors whose branches are named after the pkgbase of their one package
PlainMirrors ==
    { m \in Mirrors : \A b \in DOMAIN m : m[b] = <<SplitInfo(b, b)>> }

\* the name lists a caller hands over: keys of a map, in any order
NameLists ==
    UNION { { q \in [1..n -> AurNames] : \A i, j \in 1..n : q[i] = q[j] => i = j } :
              n \in 0..Cardinality(AurNames) }

\* what fetch_srcinfo_from_url returned for one candidate URL
NotFound == [kind |-> "none", err |-> "none"]
Parsed200 == [kind |-> "some", err |-> "none"]
Failed == [kind |-> "err", err |-> "status"]

\* The answers the candidate URLs of a branch give to one task: the mirror
\* keeps a branch as a directory under master, and the request for it may fail.
BranchAnswers(present) ==
    { <<NotFound, IF present THEN Parsed200 ELSE NotFound, NotFound>>,
      <<NotFound, Failed, NotFound>> }

\* the `for url in urls` loop of fetch_branch_srcinfo (aur.rs:298-313)
RECURSIVE FetchBranchFrom(_, _, _)
FetchBranchFrom(answers, i, last_err) ==
    IF i > Len(Urls) THEN AfterLastUrl(last_err)
    ELSE IF answers[i].kind = "some"
    THEN [tag |-> "ok", from |-> i, err |-> NoError]
    ELSE FetchBranchFrom(answers, i + 1, LastErrAfter(last_err, i, answers[i]))

fetch_branch_srcinfo(answers) == FetchBranchFrom(answers, 1, NoError)

\* a task of fetch_branches_parallel not yet run
Pending ==
    [state |-> "pending", answers |-> <<>>, res |-> NoBranchResult, entries |-> <<>>,
     rank |-> 0]

\* the task of branch b once run (aur.rs:254-257)
TaskDone(b, answers) ==
    LET res == fetch_branch_srcinfo(answers)
    IN  [state |-> "done", answers |-> answers, res |-> res,
         entries |-> IF res.tag = "ok" /\ res.from > 0 THEN mirror[b] ELSE <<>>,
         rank |-> 0]

\* the tasks of a batch finish in any order on the pool (aur.rs:252-258): the
\* place a task that finishes now takes among the tasks of its batch
RankIn(w) == 1 + Cardinality({ x \in DOMAIN w : w[x].state = "done" })

\* fetch_infos entered with any names, source and mirror; a base that
\* github_raw_base rejects has no mirror behind it
\* ---- github_raw_base (aur.rs:261-286)

\* str::trim_end_matches('/') (aur.rs:267)
RECURSIVE TrimEndMatches(_, _)
TrimEndMatches(t, c) ==
    IF t # <<>> /\ t[Len(t)] = c THEN TrimEndMatches(SubSeq(t, 1, Len(t) - 1), c) ELSE t

\* str::strip_suffix of a one-token suffix, with unwrap_or (aur.rs:268)
StripSuffixOr(t, suffix) ==
    IF t # <<>> /\ t[Len(t)] = suffix THEN SubSeq(t, 1, Len(t) - 1) ELSE t

\* str::strip_prefix (aur.rs:270-281)
HasPrefix(t, prefix) == Len(t) >= Len(prefix) /\ SubSeq(t, 1, Len(prefix)) = prefix
AfterPrefix(t, prefix) == SubSeq(t, Len(prefix) + 1, Len(t))

HttpsPrefix == <<"https:", "/", "/", "github.com", "/">>
HttpPrefix == <<"http:", "/", "/", "github.com", "/">>
ScpPrefix == <<"git@", "github.com", ":">>
SshPrefix == <<"ssh:", "/", "/", "git@", "github.com", "/">>
RawPrefix == <<"https:", "/", "/", "raw.githubusercontent.com", "/">>

\* the default of cfg.mirror_base (aur.rs:265)
DefaultMirrorBase == HttpsPrefix \o <<"archlinux", "/", "aur">>

RawBaseOk(url) == [tag |-> "ok", url |-> url]
RawBaseErr == [tag |-> "err", url |-> <<>>]

\* a variant that takes the https prefix only
github_raw_base_https_only(base_opt) ==
    LET base == IF base_opt.some THEN base_opt.v ELSE DefaultMirrorBase
        trimmed == StripSuffixOr(TrimEndMatches(Trim(base), "/"), ".git")
    IN  IF HasPrefix(trimmed, HttpsPrefix)
        THEN RawBaseOk(RawPrefix \o AfterPrefix(trimmed, HttpsPrefix))
        ELSE RawBaseErr

\* github_raw_base (aur.rs:261-286)
github_raw_base(base_opt) ==
    LET base == IF base_opt.some THEN base_opt.v ELSE DefaultMirrorBase
        trimmed == StripSuffixOr(TrimEndMatches(Trim(base), "/"), ".git")
    IN  IF HasPrefix(trimmed, HttpsPrefix)
        THEN RawBaseOk(RawPrefix \o AfterPrefix(trimmed, HttpsPrefix))
        ELSE IF HasPrefix(trimmed, HttpPrefix)
        THEN RawBaseOk(RawPrefix \o AfterPrefix(trimmed, HttpPrefix))
        ELSE IF HasPrefix(trimmed, ScpPrefix)
        THEN RawBaseOk(RawPrefix \o AfterPrefix(trimmed, ScpPrefix))
        ELSE IF HasPrefix(trimmed, SshPrefix)
        THEN RawBaseOk(RawPrefix \o AfterPrefix(trimmed, SshPrefix))
        ELSE RawBaseErr

\* a mirror base on another host
GitlabBase == <<"https:", "/", "/", "gitlab.com", "/", "owner", "/", "repo">>

\* fetch_infos is called under a configuration whose mirror base is in bases
InitFetchOver(bases) ==
    /\ ResolverIdle
    /\ BranchIdle
    /\ PlanIdle
    /\ ToolsIdle
    /\ source \in {"official", "github"}
    /\ mirror_base \in bases
    /\ base_ok = (github_raw_base(mirror_base).tag = "ok")
    /\ mirror \in Mirrors
    /\ source = "official" => mirror_base = None /\ mirror \in PlainMirrors
    /\ ~base_ok => mirror = << >>
    /\ names_arg \in NameLists
    /\ queue = <<>>
    /\ attempts = << >>
    /\ branch_cache = << >>
    /\ package_to_branch = << >>
    /\ results = << >>
    /\ chunk = <<>>
    /\ workers = << >>
    /\ fresult = NoFetchResult
    /\ fpc = "start"
    /\ rpcLog = <<>>
    /\ branchLog = <<>>
    /\ takeLog = <<>>
    /\ taskLog = << >>

InitFetch == InitFetchOver({None, Some(GitlabBase)})

\* the records the RPC answers for the names of one request
RpcResults(unique) ==
    [n \in SeqToSet(unique) \cap DOMAIN mirror |-> mirror[n][1]]

\* `while !queue.is_empty()` left: `Ok(results.into_iter()...)` (aur.rs:187, 243)
LoopOrReturn(q, res) ==
    IF q = <<>> THEN /\ fresult' = FetchOk(res) /\ fpc' = "done"
    ELSE /\ fpc' = "loop" /\ UNCHANGED fresult

\* a plausible slip: the mirror base validated before the empty-names return
DispatchBaseFirst(nms, src, ok) ==
    IF src = "github" /\ ~ok THEN "config"
    ELSE IF nms = <<>> THEN "empty"
    ELSE IF src = "official" THEN "rpc"
    ELSE "loop"

\* where fetch_infos goes: the empty-names return (aur.rs:160-162), the source
\* (aur.rs:170-173), and `github_raw_base(cfg)?` (aur.rs:180)
Dispatch(nms, src, ok) ==
    IF nms = <<>> THEN "empty"
    ELSE IF src = "official" THEN "rpc"
    ELSE IF ~ok THEN "config"
    ELSE "loop"

\* fetch_infos up to the dispatch (aur.rs:159-174), aur_rpc_info with its one
\* request (aur.rs:50-64), and github_fetch_infos up to its loop (aur.rs:176-185)
FetchStart ==
    /\ fpc = "start"
    /\ LET unique == Unique(names_arg)
           to == Dispatch(names_arg, source, base_ok)
       IN  CASE to = "empty" ->
                  /\ fresult' = FetchOk(<< >>)
                  /\ fpc' = "done"
                  /\ UNCHANGED <<queue, rpcLog>>
             [] to = "rpc" ->
                  /\ rpcLog' = Append(rpcLog, unique)
                  /\ \/ fresult' = FetchOk(RpcResults(unique))
                     \/ fresult' = FetchErr("rpc")
                  /\ fpc' = "done"
                  /\ UNCHANGED queue
             [] to = "config" ->
                  /\ fresult' = FetchErr("config")
                  /\ fpc' = "done"
                  /\ UNCHANGED <<queue, rpcLog>>
             [] OTHER ->
                  /\ queue' = unique
                  /\ fpc' = "loop"
                  /\ UNCHANGED <<fresult, rpcLog>>
    /\ UNCHANGED <<source, base_ok, mirror, names_arg, attempts, branch_cache,
                   package_to_branch, results, chunk, workers, branchLog, takeLog,
                   taskLog>>
    /\ UNCHANGED <<rvars, bvars, pvars, tvars>>

\* One iteration of the while loop up to the parallel fetch (aur.rs:187-208);
\* with nothing to fetch the iteration goes on through the lookup loop
\* (aur.rs:220-240).
TakeChunk ==
    /\ fpc = "loop"
    /\ LET chunk_len == Min(Len(queue), ChunkLimit)
           popped == SubSeq(queue, 1, chunk_len)
           rest == SubSeq(queue, chunk_len + 1, Len(queue))
           ch == SelectSeq(popped, LAMBDA pkg : pkg \notin DOMAIN results)
           branches_to_fetch == BranchesToFetch(ch, package_to_branch, branch_cache)
       IN  /\ takeLog' = takeLog \o popped
           /\ chunk' = ch
           /\ IF ch = <<>>
              THEN /\ queue' = rest
                   /\ LoopOrReturn(rest, results)
                   /\ UNCHANGED <<attempts, results, workers, branchLog>>
              ELSE IF branches_to_fetch # <<>>
              THEN /\ queue' = rest
                   /\ workers' = [b \in SeqToSet(branches_to_fetch) |-> Pending]
                   /\ branchLog' = branchLog \o branches_to_fetch
                   /\ fpc' = "workers"
                   /\ UNCHANGED <<attempts, results, fresult>>
              ELSE LET st == LookupLoop(ch, 1,
                                [results |-> results, attempts |-> attempts, queue |-> rest],
                                package_to_branch, branch_cache)
                   IN  /\ queue' = st.queue
                       /\ attempts' = st.attempts
                       /\ results' = st.results
                       /\ LoopOrReturn(st.queue, st.results)
                       /\ UNCHANGED <<workers, branchLog>>
    /\ UNCHANGED <<source, base_ok, mirror, names_arg, branch_cache,
                   package_to_branch, rpcLog, taskLog>>
    /\ UNCHANGED <<rvars, bvars, pvars, tvars>>

\* a plausible slip: the task stores its records in the cache itself
WorkerWritesCache ==
    /\ fpc = "workers"
    /\ \E b \in DOMAIN workers :
          /\ workers[b].state = "pending"
          /\ \E answers \in BranchAnswers(b \in DOMAIN mirror) :
                /\ workers' = [workers EXCEPT
                                  ![b] = [TaskDone(b, answers) EXCEPT !.rank = RankIn(workers)]]
                /\ taskLog' = (b :> TaskDone(b, answers)) @@ taskLog
                /\ branch_cache' = (b :> TaskDone(b, answers).entries) @@ branch_cache
    /\ UNCHANGED <<source, base_ok, mirror, names_arg, queue, attempts,
                   package_to_branch, results, chunk, fresult, fpc, rpcLog,
                   branchLog, takeLog>>
    /\ UNCHANGED <<rvars, bvars, pvars, tvars>>

\* One task of the par_iter (aur.rs:253-258): fetch_branch_srcinfo for one
\* branch, in any order with the other tasks.
Worker ==
    /\ fpc = "workers"
    /\ \E b \in DOMAIN workers :
          /\ workers[b].state = "pending"
          /\ \E answers \in BranchAnswers(b \in DOMAIN mirror) :
                /\ workers' = [workers EXCEPT
                                  ![b] = [TaskDone(b, answers) EXCEPT !.rank = RankIn(workers)]]
                /\ taskLog' = (b :> TaskDone(b, answers)) @@ taskLog
    /\ UNCHANGED <<source, base_ok, mirror, names_arg, queue, attempts, branch_cache,
                   package_to_branch, results, chunk, fresult, fpc, rpcLog,
                   branchLog, takeLog>>
    /\ UNCHANGED <<rvars, bvars, pvars, tvars>>

AllDone == \A b \in DOMAIN workers : workers[b].state = "done"
SomeFailed == \E b \in DOMAIN workers : workers[b].state = "done" /\ workers[b].res.tag = "err"

\* a plausible slip: the Vec collected in the order the tasks finished
FetchedInCompletionOrder ==
    LET byRank == [i \in 1..Cardinality(DOMAIN workers) |->
                      CHOOSE b \in DOMAIN workers : workers[b].rank = i]
    IN  [i \in 1..Len(byRank) |->
            [branch |-> byRank[i], entries |-> workers[byRank[i]].entries]]

\* the collected Vec of fetch_branches_parallel, in the order of its input
Fetched ==
    LET bs == Sorted(DOMAIN workers)
    IN  [i \in 1..Len(bs) |-> [branch |-> bs[i], entries |-> workers[bs[i]].entries]]

\* `.collect()` into a Result and the `?` on it (aur.rs:209, 258): an Err of
\* any task is the Err of the call, and the tasks not yet started are skipped
CollectFails ==
    /\ fpc = "workers"
    /\ SomeFailed
    /\ fresult' = FetchErr("branch")
    /\ fpc' = "done"
    /\ UNCHANGED <<source, base_ok, mirror, names_arg, queue, attempts, branch_cache,
                   package_to_branch, results, chunk, workers, rpcLog, branchLog,
                   takeLog, taskLog>>
    /\ UNCHANGED <<rvars, bvars, pvars, tvars>>

\* The rest of the iteration once every task returned Ok: the insertions
\* (aur.rs:210-217) and the lookup loop (aur.rs:220-240).
Merge ==
    /\ fpc = "workers"
    /\ AllDone /\ ~SomeFailed
    /\ \E ins \in { InsertFetched(Fetched, 1,
                            [p2b |-> package_to_branch, cache |-> branch_cache]) } :
       \E st \in { LookupLoop(chunk, 1,
                        [results |-> results, attempts |-> attempts, queue |-> queue],
                        ins.p2b, ins.cache) } :
           /\ package_to_branch' = ins.p2b
           /\ branch_cache' = ins.cache
           /\ queue' = st.queue
           /\ attempts' = st.attempts
           /\ results' = st.results
           /\ LoopOrReturn(st.queue, st.results)
    /\ UNCHANGED <<source, base_ok, mirror, names_arg, chunk, workers, rpcLog,
                   branchLog, takeLog, taskLog>>
    /\ UNCHANGED <<rvars, bvars, pvars, tvars>>

NextFetch == FetchStart \/ TakeChunk \/ Worker \/ CollectFails \/ Merge

SpecFetch == InitFetch /\ [][NextFetch]_vars

\* the blocking call runs on: every request of a task ends, by its timeout if
\* nothing else (aur.rs:324), and the loop takes its next iteration
\* the Mirror source with a supported base, over the mirrors whose only branch
\* is a (it may hold records of any names under any pkgbase)
InitFetchFair ==
    /\ InitFetch
    /\ source = "github"
    /\ base_ok
    /\ DOMAIN mirror \subseteq {A}

SpecFetchFair == InitFetchFair /\ [][NextFetch]_vars /\ WF_vars(NextFetch)

\* the candidate URL of branch foo under the default branch d, and at top level
TopLevelUrl == <<"R", "foo", ".SRCINFO">>
UnderUrl(d) == <<"R", d, "foo", ".SRCINFO">>

Requested(u) == \E j \in 1..Len(reqLog) : reqLog[j].to = u

\* C12, as claimed: the first request goes to R/foo/.SRCINFO, and whenever it
\* answers 404 a request to R/main/foo/.SRCINFO is made afterwards.
C12_MainAfterNotFound ==
    /\ Len(reqLog) >= 1 => reqLog[1].to = TopLevelUrl
    /\ (BranchReturned /\ reqLog[1].outcome.status = "404") => Requested(UnderUrl("main"))

\* C12, amended: the first request goes to R/foo/.SRCINFO; when it answers 404
\* the next request goes to R/master/foo/.SRCINFO, and R/main/foo/.SRCINFO is
\* requested after that unless the master candidate answered with a body that
\* parsed.
C12_MasterThenMainAfterNotFound ==
    /\ Len(reqLog) >= 1 => reqLog[1].to = TopLevelUrl
    /\ (Len(reqLog) >= 2 /\ reqLog[1].outcome.status = "404") =>
          reqLog[2].to = UnderUrl("master")
    /\ (BranchReturned /\ reqLog[1].outcome.status = "404") =>
          (Requested(UnderUrl("main")) <=>
              ~\E j \in 1..Len(reqLog) : reqLog[j].to = UnderUrl("master") /\ Parsed(j))
    /\ \A j, k \in 1..Len(reqLog) :
          (reqLog[j].to = UnderUrl("master") /\ reqLog[k].to = UnderUrl("main")) => j < k

\* 404 at the top level, 404 under master, then the request under main
C12_Witness ==
    /\ Len(reqLog) = 3
    /\ reqLog[1].to = TopLevelUrl /\ reqLog[1].outcome.status = "404"
    /\ reqLog[2].to = UnderUrl("master") /\ reqLog[2].outcome.status = "404"
    /\ reqLog[3].to = UnderUrl("main")

----------------------------------------------------------------------------
(* Claims about fetch_infos *)

FetchReturned == fpc = "done"
Requested3(n) == n \in SeqToSet(names_arg)
AllNotFound(b) == b \in DOMAIN taskLog /\ taskLog[b].answers = <<NotFound, NotFound, NotFound>>
NoTaskFailed == \A b \in DOMAIN taskLog : taskLog[b].res.tag = "ok"

C13_RpcRequestWithinCeiling ==
    \A i \in 1..Len(rpcLog) : Len(rpcLog[i]) <= ChunkLimit

\* C14: a fetch with no names returns the empty result without any network
\* request, under the Official and under the Mirror source, and under the
\* Mirror source whether or not the mirror base URL is a supported one.
C14_EmptyNamesNoRequest ==
    (FetchReturned /\ names_arg = <<>>) =>
        /\ fresult = FetchOk(<< >>)
        /\ rpcLog = <<>>
        /\ branchLog = <<>>
        /\ taskLog = << >>

\* the Mirror source with an unsupported base URL, called with no names
C14_Witness ==
    /\ FetchReturned
    /\ names_arg = <<>>
    /\ source = "github"
    /\ ~base_ok
    /\ fresult = FetchOk(<< >>)

\* C15: within one Mirror fetch the branch fetcher is never handed a branch
\* that is in branch_cache, and no branch is handed to it twice, the re-queue
\* pass and the branches that had no records included.
C15_BranchFetchedOnce ==
    /\ \A i, j \in 1..Len(branchLog) : branchLog[i] = branchLog[j] => i = j
    /\ fpc = "workers" => DOMAIN workers \cap DOMAIN branch_cache = {}

\* a name is popped a second time while its branch, fetched with no records,
\* is in the cache
C15_Witness ==
    /\ FetchReturned
    /\ \E n \in AurNames :
          /\ Count(takeLog, n) = 2
          /\ n \in DOMAIN branch_cache
          /\ branch_cache[n] = <<>>
          /\ Count(branchLog, n) = 1

Popped(n) == Count(takeLog, n)

\* the safety half of C16
TakenAtMostTwice ==
    /\ \A n \in AurNames : Popped(n) <= 2
    /\ \A n \in AurNames : Popped(n) = 2 => (n \in DOMAIN attempts /\ attempts[n] = 1)
    /\ (fpc = "loop" \/ (FetchReturned /\ fresult.tag = "ok")) =>
          \A n \in AurNames :
              (Popped(n) >= 1 /\ n \notin DOMAIN results) => Popped(n) + Count(queue, n) = 2
    /\ (FetchReturned /\ source = "github" /\ base_ok /\ NoTaskFailed) =>
          /\ fresult = FetchOk(results)
          /\ \A n \in SeqToSet(names_arg) \ DOMAIN results : Popped(n) = 2

\* C16: within one Mirror fetch every name is taken from the queue at most
\* twice: a name not found on its first pass is put back once, a name not found
\* on its second pass is left out of the result without an error, and the
\* fetch returns.
C16_RequeuedOnceThenDropped == []TakenAtMostTwice /\ <>FetchReturned

\* B is missed in the first pass and found in its second, after the branch of
\* its pkgbase A was fetched; C is missed twice and left out
C16_Witness ==
    /\ fresult.tag = "ok"
    /\ Popped(B) = 2 /\ B \in DOMAIN fresult.infos
    /\ Popped(C) = 2 /\ C \notin DOMAIN fresult.infos
    /\ A \in DOMAIN branch_cache

\* the branch named n was fetched with success and its records hold one named n
OwnBranchHolds(n) ==
    /\ n \in DOMAIN taskLog
    /\ taskLog[n].res.tag = "ok"
    /\ \E i \in 1..Len(taskLog[n].entries) : taskLog[n].entries[i].name = n

\* C17: a requested name whose own branch was fetched and holds a record of
\* that name is in the result of the Mirror fetch, whatever pkgbase the
\* .SRCINFO declares and whatever other branches the call fetched.
C17_OwnBranchRecordReturned ==
    fresult.tag = "ok" =>
        \A n \in SeqToSet(names_arg) : OwnBranchHolds(n) => n \in DOMAIN fresult.infos

Caches == <<branch_cache, package_to_branch>>

\* C18: while the tasks of a batch run, no step of a task changes branch_cache
\* or package_to_branch, and what a task returns depends on its branch alone;
\* the two maps change only once every task of the batch has returned Ok; and
\* when a task has failed the call returns an error with nothing of the batch
\* inserted.
C18_InsertionsAfterAllWorkers ==
    [][ /\ (fpc = "workers" /\ fpc' = "workers") => UNCHANGED Caches
        /\ \A b \in DOMAIN workers' :
              workers'[b].state = "done" =>
                  /\ workers'[b].res = fetch_branch_srcinfo(workers'[b].answers)
                  /\ workers'[b].entries \in {<<>>, IF b \in DOMAIN mirror THEN mirror[b] ELSE <<>>}
        /\ (Caches' # Caches) => (fpc = "workers" /\ AllDone /\ ~SomeFailed)
        /\ (fpc = "workers" /\ SomeFailed /\ fpc' # "workers") =>
              (UNCHANGED Caches /\ fresult'.tag = "err")
      ]_vars

\* the call failed on one task of a batch while another task of the batch had
\* fetched records: they are in neither map
C18_Witness ==
    /\ FetchReturned
    /\ fresult.tag = "err"
    /\ \E b \in DOMAIN workers :
          /\ workers[b].state = "done"
          /\ workers[b].res.tag = "ok"
          /\ workers[b].entries # <<>>
          /\ b \notin DOMAIN branch_cache
          /\ \A i \in 1..Len(workers[b].entries) :
                workers[b].entries[i].name \notin DOMAIN package_to_branch

----------------------------------------------------------------------------
(* The callers' grouping by pkgbase (main.rs:381-400 and 556-574) *)

\* a record of the dataset whose pkgbase is `base`, declaring the targets T
PlanInfo(n, base, T) == [MkInfo(n, T) EXCEPT !.pkgbase = base]

\* The datasets with split packages: any of the names may have a record, a
\* record is an output of its own pkgbase or of the pkgbase a, and the records
\* declare at most MaxPlanDeps dependencies between them.
PlanDatasets ==
    UNION { { [n \in D |-> PlanInfo(n, f[n][1], f[n][2])] :
                f \in { g \in [D -> AurNames \X SUBSET AurNames] :
                          /\ \A n \in D : g[n][1] \in {n, A}
                          /\ Cardinality({ e \in D \X AurNames : e[2] \in g[e[1]][2] })
                                <= MaxPlanDeps } } :
            D \in SUBSET AurNames }

\* the mirror of a dataset: one branch per pkgbase, holding its outputs
MirrorOf(d) ==
    [b \in { d[n].pkgbase : n \in DOMAIN d } |->
        LET outs == Sorted({ n \in DOMAIN d : d[n].pkgbase = b })
        IN  [i \in 1..Len(outs) |-> d[outs[i]]]]

\* resolve_build_order called by handle_sync or handle_sysupgrade, under either
\* source (main.rs:381, 556)
InitPlan ==
    /\ roots \in NameLists \ {<<>>}
    /\ db \in PlanDatasets
    /\ to_visit = roots
    /\ seen = {}
    /\ infos = << >>
    /\ graph = NoGraph
    /\ result = NoResult
    /\ pc = "discover"
    /\ fetchLog = <<>>
    /\ fetchFailed = FALSE
    /\ run = 1
    /\ firstResult = NoResult
    /\ BranchIdle
    /\ source \in {"official", "github"}
    /\ mirror = IF source = "github" THEN MirrorOf(db) ELSE << >>
    /\ FetchNotCalled
    /\ info_for_order = << >>
    /\ pkgbases = <<>>
    /\ ppc = "resolve"
    /\ ToolsIdle

\* a plausible slip: seen_base not consulted
RECURSIVE GroupFromNoSeen(_, _, _, _)
GroupFromNoSeen(order, i, map, st) ==
    IF i > Len(order) THEN st
    ELSE GroupFromNoSeen(order, i + 1, map,
            IF order[i] \in DOMAIN map
            THEN [seen_base |-> st.seen_base \cup {map[order[i]].pkgbase},
                  pkgbases |-> Append(st.pkgbases, map[order[i]].pkgbase)]
            ELSE st)

\* the loop `for name in &order` (main.rs:394-400, 568-574) from position i
RECURSIVE GroupFrom(_, _, _, _)
GroupFrom(order, i, map, st) ==
    IF i > Len(order) THEN st
    ELSE GroupFrom(order, i + 1, map,
            IF order[i] \in DOMAIN map /\ map[order[i]].pkgbase \notin st.seen_base
            THEN [seen_base |-> st.seen_base \cup {map[order[i]].pkgbase},
                  pkgbases |-> Append(st.pkgbases, map[order[i]].pkgbase)]
            ELSE st)

GroupByBase(order, map) == GroupFrom(order, 1, map, [seen_base |-> {}, pkgbases |-> <<>>]).pkgbases

\* What the caller does with the Result of resolve_build_order: `?` on an Err,
\* else the second metadata batch `aur_info_batch(order.clone())?` and the
\* grouping loop (main.rs:381-400, 556-574).
Group ==
    /\ ppc = "resolve"
    /\ pc = "done"
    /\ IF result.tag # "ok"
       THEN /\ ppc' = "failed"
            /\ UNCHANGED <<info_for_order, pkgbases>>
       ELSE \/ /\ result.order # <<>>
               /\ ppc' = "failed"
               /\ UNCHANGED <<info_for_order, pkgbases>>
            \/ /\ info_for_order' = FetchedMap(result.order)
               /\ pkgbases' = GroupByBase(result.order, FetchedMap(result.order))
               /\ ppc' = "done"
    /\ UNCHANGED <<rvars, bvars, fvars, tvars>>

NextPlan == Discover \/ Sort \/ Group

SpecPlan == InitPlan /\ [][NextPlan]_vars

Grouped == ppc = "done"

C20_BasesInDependencyOrder ==
    Grouped =>
        \A p, q \in SeqToSet(pkgbases) :
            (/\ p # q
             /\ \E x, y \in SeqToSet(result.order) :
                   /\ infos[x].pkgbase = p
                   /\ infos[y].pkgbase = q
                   /\ DependsOn(infos[y], x))
            => IndexOf(pkgbases, p) < IndexOf(pkgbases, q)

\* position in the build order of the first output of pkgbase p
FirstOutput(p) ==
    CHOOSE i \in 1..Len(result.order) :
        /\ infos[result.order[i]].pkgbase = p
        /\ \A j \in 1..(i - 1) : infos[result.order[j]].pkgbase # p

\* C21: the pkgbase list has no duplicate, every base in it is the pkgbase of
\* an output of the build order, and the bases stand in the order of their
\* first outputs in the build order.
C21_BasesOnceInFirstOutputOrder ==
    Grouped =>
        /\ \A i, j \in 1..Len(pkgbases) : pkgbases[i] = pkgbases[j] => i = j
        /\ \A i \in 1..Len(pkgbases) :
              \E k \in 1..Len(result.order) : infos[result.order[k]].pkgbase = pkgbases[i]
        /\ \A i, j \in 1..Len(pkgbases) :
              i < j => FirstOutput(pkgbases[i]) < FirstOutput(pkgbases[j])

\* three outputs in the build order, two of them of one pkgbase, whose second
\* output comes after the output of the other base
C21_Witness ==
    /\ Grouped
    /\ Len(result.order) = 3
    /\ Len(pkgbases) = 2
    /\ infos[result.order[1]].pkgbase = infos[result.order[3]].pkgbase
    /\ infos[result.order[2]].pkgbase # infos[result.order[1]].pkgbase

-----------------------------------------------------------------------------
(* parse_srcinfo (aur.rs:366-507) *)

\* most lines a .SRCINFO text has after its header lines
MaxBodyLines == 3

\* struct DepFields (aur.rs:366-371) and its Default
DepFields(d, m, c) == [depends |-> d, makedepends |-> m, checkdepends |-> c]
DefaultDepFields == DepFields(<<>>, <<>>, <<>>)

\* the locals of parse_srcinfo before the first line (aur.rs:374-381)
ParseStart ==
    [pkgbase |-> None, pkgver |-> None, pkgrel |-> None, epoch |-> None,
     base_fields |-> DefaultDepFields, pkg_fields |-> << >>,
     pkg_names |-> <<>>, current_pkg |-> None]

\* the guards `key == f || key.starts_with("f_")` (aur.rs:414, 426, 438)
KeyIs(key, f) ==
    \/ key = <<f>>
    \/ Len(key) >= 2 /\ key[1] = f /\ key[2] = "_"

\* HashMap::entry(name).or_default() (aur.rs:411, 417-419)
OrDefault(pkg_fields, name) ==
    IF name \in DOMAIN pkg_fields THEN pkg_fields
    ELSE [n \in DOMAIN pkg_fields \cup {name} |->
             IF n = name THEN DefaultDepFields ELSE pkg_fields[n]]

\* one of the three dependency arms (aur.rs:414-449): the entry goes to the
\* fields of the current sub-package, or to the base fields when there is none
PushEntry(st, f, entry) ==
    IF st.current_pkg.some
    THEN LET pkg == st.current_pkg.v
             pf == OrDefault(st.pkg_fields, pkg)
         IN  [st EXCEPT !.pkg_fields =
                 [pf EXCEPT ![pkg] = [@ EXCEPT ![f] = Append(@, entry)]]]
    ELSE [st EXCEPT !.base_fields = [@ EXCEPT ![f] = Append(@, entry)]]

\* a plausible slip: a pkgbase line leaves the current sub-package open
ParseLineKeepsSection(st, raw) ==
    LET line == Trim(raw)
    IN  IF line = <<>> \/ Head(line) = "#" THEN st
        ELSE IF ~ \E i \in 1..Len(line) : line[i] = "=" THEN st
        ELSE
            LET i == CHOOSE k \in 1..Len(line) :
                        /\ line[k] = "="
                        /\ \A j \in 1..(k - 1) : line[j] # "="
                key == Trim(SubSeq(line, 1, i - 1))
                value == Trim(SubSeq(line, i + 1, Len(line)))
            IN  CASE key = <<"pkgbase">> ->
                        [st EXCEPT !.pkgbase = Some(value)]
                  [] key = <<"pkgver">> -> [st EXCEPT !.pkgver = Some(value)]
                  [] key = <<"pkgrel">> -> [st EXCEPT !.pkgrel = Some(value)]
                  [] key = <<"epoch">> ->
                        IF value # <<>> THEN [st EXCEPT !.epoch = Some(value)] ELSE st
                  [] key = <<"pkgname">> ->
                        [st EXCEPT !.current_pkg = Some(value),
                                   !.pkg_fields = OrDefault(@, value),
                                   !.pkg_names = Append(@, value)]
                  [] OTHER ->
                        IF KeyIs(key, "depends") THEN PushEntry(st, "depends", value)
                        ELSE IF KeyIs(key, "makedepends")
                             THEN PushEntry(st, "makedepends", value)
                        ELSE IF KeyIs(key, "checkdepends")
                             THEN PushEntry(st, "checkdepends", value)
                        ELSE st

\* the body of the line loop (aur.rs:384-451)
ParseLine(st, raw) ==
    LET line == Trim(raw)
    IN  IF line = <<>> \/ Head(line) = "#" THEN st
        ELSE IF ~ \E i \in 1..Len(line) : line[i] = "=" THEN st
        ELSE
            LET i == CHOOSE k \in 1..Len(line) :
                        /\ line[k] = "="
                        /\ \A j \in 1..(k - 1) : line[j] # "="
                key == Trim(SubSeq(line, 1, i - 1))
                value == Trim(SubSeq(line, i + 1, Len(line)))
            IN  CASE key = <<"pkgbase">> ->
                        [st EXCEPT !.pkgbase = Some(value), !.current_pkg = None]
                  [] key = <<"pkgver">> -> [st EXCEPT !.pkgver = Some(value)]
                  [] key = <<"pkgrel">> -> [st EXCEPT !.pkgrel = Some(value)]
                  [] key = <<"epoch">> ->
                        IF value # <<>> THEN [st EXCEPT !.epoch = Some(value)] ELSE st
                  [] key = <<"pkgname">> ->
                        [st EXCEPT !.current_pkg = Some(value),
                                   !.pkg_fields = OrDefault(@, value),
                                   !.pkg_names = Append(@, value)]
                  [] OTHER ->
                        IF KeyIs(key, "depends") THEN PushEntry(st, "depends", value)
                        ELSE IF KeyIs(key, "makedepends")
                             THEN PushEntry(st, "makedepends", value)
                        ELSE IF KeyIs(key, "checkdepends")
                             THEN PushEntry(st, "checkdepends", value)
                        ELSE st

\* the line loop (aur.rs:383-452) from line i on
RECURSIVE ParseLines(_, _, _)
ParseLines(lines, i, st) ==
    IF i > Len(lines) THEN st
    ELSE ParseLines(lines, i + 1, ParseLine(st, lines[i]))

\* a variant that puts every epoch but the empty one into the version
format_version_zero_epoch(epoch, pkgver, pkgrel) ==
    IF epoch.some /\ epoch.v # <<>>
    THEN epoch.v \o <<":">> \o pkgver \o <<"-">> \o pkgrel
    ELSE pkgver \o <<"-">> \o pkgrel

\* format_version (aur.rs:502-507)
format_version(epoch, pkgver, pkgrel) ==
    IF epoch.some /\ epoch.v # <<>> /\ epoch.v # <<"0">>
    THEN epoch.v \o <<":">> \o pkgver \o <<"-">> \o pkgrel
    ELSE pkgver \o <<"-">> \o pkgrel

\* merge_lists (aur.rs:487-492)
merge_lists(a, b) == a \o b

\* merge_fields (aur.rs:479-485)
merge_fields(base, specific) ==
    DepFields(merge_lists(base.depends, specific.depends),
              merge_lists(base.makedepends, specific.makedepends),
              merge_lists(base.checkdepends, specific.checkdepends))

ParseOk(is) == [tag |-> "ok", infos |-> is, err |-> "none"]
ParseErr(e) == [tag |-> "err", infos |-> <<>>, err |-> e]
NoParseResult == [tag |-> "none", infos |-> <<>>, err |-> "none"]

\* a variant that emits a record only for a name still in the map
RECURSIVE EmitInfosOncePerName(_, _, _, _, _, _)
EmitInfosOncePerName(pkg_names, i, pkg_fields, base_fields, pkgbase, version) ==
    IF i > Len(pkg_names) THEN <<>>
    ELSE
        LET name == pkg_names[i]
            rest == [n \in DOMAIN pkg_fields \ {name} |-> pkg_fields[n]]
        IN  (IF name \in DOMAIN pkg_fields
             THEN <<[name |-> name, pkgbase |-> pkgbase, version |-> version,
                     depends |-> VecToOption(merge_lists(base_fields.depends, pkg_fields[name].depends)),
                     makedepends |-> VecToOption(merge_lists(base_fields.makedepends, pkg_fields[name].makedepends)),
                     checkdepends |-> VecToOption(merge_lists(base_fields.checkdepends, pkg_fields[name].checkdepends))]>>
             ELSE <<>>)
            \o EmitInfosOncePerName(pkg_names, i + 1, rest, base_fields, pkgbase, version)

\* the loop over pkg_names (aur.rs:464-475): pkg_fields.remove(&name) takes
\* the fields of a name out of the map, so a name that stands twice in
\* pkg_names finds nothing the second time
RECURSIVE EmitInfos(_, _, _, _, _, _)
EmitInfos(pkg_names, i, pkg_fields, base_fields, pkgbase, version) ==
    IF i > Len(pkg_names) THEN <<>>
    ELSE
        LET name == pkg_names[i]
            pkg_specific == IF name \in DOMAIN pkg_fields
                            THEN pkg_fields[name] ELSE DefaultDepFields
            merged == merge_fields(base_fields, pkg_specific)
            rest == [n \in DOMAIN pkg_fields \ {name} |-> pkg_fields[n]]
        IN  <<[name |-> name, pkgbase |-> pkgbase, version |-> version,
               depends |-> VecToOption(merged.depends),
               makedepends |-> VecToOption(merged.makedepends),
               checkdepends |-> VecToOption(merged.checkdepends)]>>
            \o EmitInfos(pkg_names, i + 1, rest, base_fields, pkgbase, version)

\* a variant that lets a text without pkgrel line pass with an empty pkgrel
FinishParseNoPkgrelCheck(st) ==
    IF ~ st.pkgbase.some THEN ParseErr("Missing pkgbase")
    ELSE IF ~ st.pkgver.some THEN ParseErr("Missing pkgver")
    ELSE ParseOk(EmitInfos(IF st.pkg_names = <<>> THEN <<st.pkgbase.v>> ELSE st.pkg_names,
                           1, st.pkg_fields, st.base_fields, st.pkgbase.v,
                           format_version(st.epoch, st.pkgver.v, st.pkgrel.v)))

\* the part of parse_srcinfo after the line loop (aur.rs:454-476)
FinishParse(st) ==
    IF ~ st.pkgbase.some THEN ParseErr("Missing pkgbase")
    ELSE IF ~ st.pkgver.some THEN ParseErr("Missing pkgver")
    ELSE IF ~ st.pkgrel.some THEN ParseErr("Missing pkgrel")
    ELSE
        LET pkgbase == st.pkgbase.v
            pkg_fields == IF st.pkg_names = <<>>
                          THEN OrDefault(st.pkg_fields, pkgbase) ELSE st.pkg_fields
            pkg_names == IF st.pkg_names = <<>> THEN <<pkgbase>> ELSE st.pkg_names
            version == format_version(st.epoch, st.pkgver.v, st.pkgrel.v)
        IN  ParseOk(EmitInfos(pkg_names, 1, pkg_fields, st.base_fields,
                              pkgbase, version))

\* parse_srcinfo (aur.rs:373-477)
parse_srcinfo(text) == FinishParse(ParseLines(text, 1, ParseStart))

\* ---- the .SRCINFO texts parse_srcinfo is given

\* the lines of the texts, written as makepkg --printsrcinfo writes them
PkgbaseLine == <<"pkgbase", " ", "=", " ", "x">>
PkgverLine == <<" ", "pkgver", " ", "=", " ", "2.0">>
PkgverCommented == <<" ", "#", "pkgver", " ", "=", " ", "2.0">>
PkgrelLine == <<" ", "pkgrel", " ", "=", " ", "3", " ">>
PkgrelNoEquals == <<" ", "pkgrel", " ", "3">>
EpochEmpty == <<" ", "epoch", " ", "=", " ">>
EpochZero == <<" ", "epoch", " ", "=", " ", "0">>
EpochOne == <<" ", "epoch", " ", "=", " ", "1">>
OptdependsLine == <<" ", "optdepends", " ", "=", " ", "z">>
BlankLine == <<" ">>
PkgnameA == <<"pkgname", " ", "=", " ", "a">>
PkgnameB == <<"pkgname", "=", "b">>
DependsC == <<" ", "depends", " ", "=", " ", "c", ">", "=", "1">>
DependsArchD == <<" ", "depends", "_", "x86_64", " ", "=", " ", "d">>
MakedependsE == <<" ", "makedepends", " ", "=", " ", "e">>
CheckdependsF == <<" ", "checkdepends", " ", "=", " ", "f">>

\* the header of a text: each of the three required lines is there or is
\* missing in one of the ways the parser skips (no line, a comment, no '=')
RequiredHeaders ==
    { b \o v \o r : b \in {<<PkgbaseLine>>, <<>>},
                    v \in {<<PkgverLine>>, <<PkgverCommented>>},
                    r \in {<<PkgrelLine>>, <<PkgrelNoEquals>>} }

FullHeader == <<PkgbaseLine, PkgverLine, PkgrelLine>>

\* the complete header followed by epoch lines or by lines the parser ignores
EpochHeaders ==
    { FullHeader \o e : e \in { <<EpochEmpty>>, <<EpochZero>>, <<EpochOne>>,
                                <<EpochOne, EpochZero>>, <<EpochOne, EpochEmpty>>,
                                <<OptdependsLine, BlankLine>> } }

Headers == RequiredHeaders \cup EpochHeaders

\* the lines after the header: sections of two sub-packages, dependency lines
\* of the three kinds, and a pkgbase line
BodyLines == {PkgnameA, PkgnameB, DependsC, DependsArchD, MakedependsE,
              CheckdependsF, PkgbaseLine}

Bodies == UNION { [1..n -> BodyLines] : n \in 0..MaxBodyLines }

\* bodies in which a pkgbase line comes after the sub-package sections and a
\* dependency line follows it
DepLines == {DependsC, DependsArchD, MakedependsE, CheckdependsF}
ClosedSectionBodies ==
    { <<PkgnameA, PkgnameB, PkgbaseLine, d>> : d \in DepLines }
        \cup { <<PkgnameA, d[1], PkgbaseLine, d[2]>> : d \in DepLines \X DepLines }

Texts == { h \o b : h \in Headers, b \in Bodies \cup ClosedSectionBodies }

InitParse ==
    /\ ResolverIdle
    /\ BranchIdle
    /\ FetchIdle
    /\ PlanIdle
    /\ StripIdle
    /\ UpdateIdle
    /\ BuildIdle
    /\ contents \in Texts
    /\ parsed = NoParseResult
    /\ spc = "parse"

\* fetch_srcinfo_from_url hands the body of the response to parse_srcinfo
\* (aur.rs:341)
Parse ==
    /\ spc = "parse"
    /\ parsed' = parse_srcinfo(contents)
    /\ spc' = "done"
    /\ UNCHANGED <<contents, rvars, bvars, fvars, pvars, kvars, uvars, cvars, gvars>>

NextParse == Parse

SpecParse == InitParse /\ [][NextParse]_vars

\* ---- what the lines of a text say, written down line by line

\* the key and the value of each line of the texts; "none" for a line that is
\* blank, a comment, without '=' or of a key the parser does not read
Reading(raw) ==
    CASE raw = PkgbaseLine -> [key |-> "pkgbase", value |-> <<"x">>]
      [] raw = PkgverLine -> [key |-> "pkgver", value |-> <<"2.0">>]
      [] raw = PkgrelLine -> [key |-> "pkgrel", value |-> <<"3">>]
      [] raw = EpochEmpty -> [key |-> "epoch", value |-> <<>>]
      [] raw = EpochZero -> [key |-> "epoch", value |-> <<"0">>]
      [] raw = EpochOne -> [key |-> "epoch", value |-> <<"1">>]
      [] raw = PkgnameA -> [key |-> "pkgname", value |-> A]
      [] raw = PkgnameB -> [key |-> "pkgname", value |-> B]
      [] raw = DependsC -> [key |-> "depends", value |-> <<"c", ">", "=", "1">>]
      [] raw = DependsArchD -> [key |-> "depends", value |-> <<"d">>]
      [] raw = MakedependsE -> [key |-> "makedepends", value |-> <<"e">>]
      [] raw = CheckdependsF -> [key |-> "checkdepends", value |-> <<"f">>]
      [] OTHER -> [key |-> "none", value |-> <<>>]

\* the positions of the lines of key k in the text, in line order
LinesOf(k) == { i \in 1..Len(contents) : Reading(contents[i]).key = k }

\* the values of the lines at the positions P, in line order
ValuesAt(P) ==
    LET ps == SelectSeq([i \in 1..Len(contents) |-> i], LAMBDA i : i \in P)
    IN  [j \in 1..Len(ps) |-> Reading(contents[ps[j]]).value]

\* the section line i stands in: the sub-package named by the last pkgname
\* line before it, or the base when there is none or a pkgbase line came later
BaseSection == <<"(base)">>
SectionOf(i) ==
    LET marks == { j \in 1..(i - 1) : Reading(contents[j]).key \in {"pkgname", "pkgbase"} }
    IN  IF marks = {} THEN BaseSection
        ELSE LET last == CHOOSE j \in marks : \A k \in marks : k <= j
             IN  IF Reading(contents[last]).key = "pkgname"
                 THEN Reading(contents[last]).value ELSE BaseSection

\* the entries of category f declared in section sec, in line order
SectionList(sec, f) == ValuesAt({ i \in LinesOf(f) : SectionOf(i) = sec })

ParseReturned == spc = "done"
ParseSucceeded == ParseReturned /\ parsed.tag = "ok"

DepCategories == {"depends", "makedepends", "checkdepends"}

\* C22: for every record parse_srcinfo emits and each of depends, makedepends
\* and checkdepends, the list of the record is the base-level list followed by
\* the list of the section of the record's sub-package, each in line order
\* (no list when both are empty).
C22_BaseThenSectionLists ==
    ParseSucceeded =>
        \A k \in 1..Len(parsed.infos) : \A f \in DepCategories :
            parsed.infos[k][f] =
                VecToOption(SectionList(BaseSection, f) \o SectionList(parsed.infos[k].name, f))

RequiredKeys == {"pkgbase", "pkgver", "pkgrel"}

\* C23: parse_srcinfo fails with a missing-field error, and returns no record,
\* exactly when the text has no pkgbase line, no pkgver line or no pkgrel
\* line, whatever other lines it has.
C23_FailsIffRequiredLineMissing ==
    ParseReturned =>
        /\ parsed.tag = "err" <=> \E k \in RequiredKeys : LinesOf(k) = {}
        /\ parsed.tag = "err" =>
              /\ parsed.infos = <<>>
              /\ parsed.err \in {"Missing pkgbase", "Missing pkgver", "Missing pkgrel"}
        /\ parsed.tag = "ok" => parsed.err = "none"

\* a text without pkgver line, with a pkgname section and dependency lines,
\* was refused
C23_Witness ==
    /\ ParseReturned
    /\ parsed.tag = "err"
    /\ LinesOf("pkgver") = {}
    /\ LinesOf("pkgbase") # {}
    /\ LinesOf("pkgrel") # {}
    /\ LinesOf("pkgname") # {}
    /\ LinesOf("depends") # {}

\* C24: when parse_srcinfo succeeds it returns at least one record: one record
\* per pkgname line, named as the lines in line order, or one record named
\* after pkgbase when the text has no pkgname line; all records carry the same
\* pkgbase and the same version.
C24_OneRecordPerPkgnameLine ==
    ParseSucceeded =>
        /\ Len(parsed.infos) >= 1
        /\ IF LinesOf("pkgname") # {}
           THEN [k \in 1..Len(parsed.infos) |-> parsed.infos[k].name]
                    = ValuesAt(LinesOf("pkgname"))
           ELSE /\ Len(parsed.infos) = 1
                /\ parsed.infos[1].name = parsed.infos[1].pkgbase
        /\ \A j, k \in 1..Len(parsed.infos) :
              /\ parsed.infos[j].pkgbase = parsed.infos[k].pkgbase
              /\ parsed.infos[j].version = parsed.infos[k].version
        /\ \A k \in 1..Len(parsed.infos) :
              parsed.infos[k].pkgbase \in { Reading(contents[i]).value : i \in LinesOf("pkgbase") }

\* a text with three pkgname lines, one name twice, gave three records
C24_Witness ==
    /\ ParseSucceeded
    /\ Len(parsed.infos) = 3
    /\ parsed.infos[1].name = B
    /\ parsed.infos[2].name = A
    /\ parsed.infos[3].name = B

\* the value of the last line of key k whose value is not empty
LastValue(k) ==
    LET P == { i \in LinesOf(k) : Reading(contents[i]).value # <<>> }
    IN  Reading(contents[CHOOSE i \in P : \A j \in P : j <= i]).value

\* the text has an epoch line with a value other than "" and "0"
EpochLineSeen ==
    \E i \in LinesOf("epoch") : Reading(contents[i]).value \notin {<<>>, <<"0">>}

\* the epoch the version is built with: the value of the last epoch line whose
\* value is not empty, when there is one and it is not "0"
EpochInForce ==
    /\ \E i \in LinesOf("epoch") : Reading(contents[i]).value # <<>>
    /\ LastValue("epoch") # <<"0">>

\* the value of the last line of key k
LastLine(k) == Reading(contents[CHOOSE i \in LinesOf(k) : \A j \in LinesOf(k) : j <= i]).value

VersionWithoutEpoch == LastLine("pkgver") \o <<"-">> \o LastLine("pkgrel")
VersionWithEpoch == LastValue("epoch") \o <<":">> \o VersionWithoutEpoch

\* C25 as stated: the version of every record is epoch:pkgver-pkgrel when the
\* text has an epoch line with a value other than "" and "0", and
\* pkgver-pkgrel otherwise.
C25_EpochPrefixWhenEpochLineSeen ==
    ParseSucceeded =>
        \A k \in 1..Len(parsed.infos) :
            parsed.infos[k].version =
                IF EpochLineSeen THEN VersionWithEpoch ELSE VersionWithoutEpoch

\* C25: the version of every record is epoch:pkgver-pkgrel when the last epoch
\* line with a non-empty value has a value other than "0", and pkgver-pkgrel
\* otherwise (no epoch line, only empty epoch lines, or a last value "0").
C25_EpochPrefixWhenLastEpochNonZero ==
    ParseSucceeded =>
        \A k \in 1..Len(parsed.infos) :
            parsed.infos[k].version =
                IF EpochInForce THEN VersionWithEpoch ELSE VersionWithoutEpoch

\* a text with an epoch line of value 1 followed by an empty epoch line gave
\* records of two sub-packages with the epoch in their version
C25_Witness ==
    /\ ParseSucceeded
    /\ EpochLineSeen
    /\ \E i \in LinesOf("epoch") : Reading(contents[i]).value = <<>>
    /\ Len(parsed.infos) = 2
    /\ parsed.infos[2].version = <<"1", ":", "2.0", "-", "3">>

-----------------------------------------------------------------------------
(* strip_version (aur.rs:79-85) on its own *)

\* most characters of a dependency declaration
MaxDeclLen == 3

\* the characters of a declaration: of a name, of a version, and the operators
DeclChars == {"a", "1"} \cup OpChars

Declarations == UNION { [1..n -> DeclChars] : n \in 0..MaxDeclLen }

InitStrip ==
    /\ ResolverIdle
    /\ BranchIdle
    /\ FetchIdle
    /\ PlanIdle
    /\ ParseIdle
    /\ UpdateIdle
    /\ BuildIdle
    /\ dep_arg \in Declarations
    /\ stripped = <<>>

\* strip_version called: on dep first, then on the String it returned
Strip ==
    /\ Len(stripped) < 2
    /\ stripped' = Append(stripped,
                          strip_version(IF stripped = <<>> THEN dep_arg
                                        ELSE stripped[Len(stripped)]))
    /\ UNCHANGED <<dep_arg, rvars, bvars, fvars, pvars, svars, uvars, cvars, gvars>>

NextStrip == Strip

SpecStrip == InitStrip /\ [][NextStrip]_vars

\* C26: strip_version returns the part of its argument before the first '<',
\* '>' or '=', the whole argument when it has none of them; the String
\* returned has none of the three characters, and strip_version applied to it
\* returns it unchanged.
C26_PrefixBeforeFirstOperator ==
    /\ Len(stripped) >= 1 =>
          /\ \E n \in 0..Len(dep_arg) :
                /\ stripped[1] = SubSeq(dep_arg, 1, n)
                /\ \A i \in 1..n : dep_arg[i] \notin OpChars
                /\ n = Len(dep_arg) \/ dep_arg[n + 1] \in OpChars
          /\ (\A i \in 1..Len(dep_arg) : dep_arg[i] \notin OpChars) => stripped[1] = dep_arg
          /\ \A i \in 1..Len(stripped[1]) : stripped[1][i] \notin OpChars
    /\ Len(stripped) = 2 => stripped[2] = stripped[1]

\* a declaration with two operators after the name was stripped twice
C26_Witness ==
    /\ Len(stripped) = 2
    /\ dep_arg = <<"a", ">", "=">>
    /\ stripped[1] = <<"a">>

-----------------------------------------------------------------------------
(* The update detection of handle_sysupgrade and handle_print_updates
   (main.rs:342-359, 191-207) *)

\* Result<i32> of pac::vercmp (pac.rs:87-102): what the vercmp command printed,
\* or the failure to run it or to read a number from its output
VercmpOk(ord) == [ok |-> TRUE, ord |-> ord]
VercmpErr == [ok |-> FALSE, ord |-> 0]
VercmpAnswers == {VercmpOk(-1), VercmpOk(0), VercmpOk(1), VercmpErr}
\* `infos.get(name)` found nothing: vercmp is not called
NotCompared == [ok |-> FALSE, ord |-> 2]

InstalledVersion == "1-1"
LatestVersion == "2-1"

InitUpdate ==
    /\ ResolverIdle
    /\ BranchIdle
    /\ FetchIdle
    /\ PlanIdle
    /\ ParseIdle
    /\ StripIdle
    /\ BuildIdle
    /\ \E D \in SUBSET AurNames : foreign = [n \in D |-> InstalledVersion]
    /\ \E E \in SUBSET AurNames : latest = [n \in E |-> LatestVersion]
    /\ foreign_iter \in Perms(DOMAIN foreign)
    /\ cmpLog = <<>>
    /\ outdated = <<>>
    /\ upc = "compare"

\* a variant that also takes a package whose latest version equals the installed one
IsCandidateNotNewer(ans) == ans.ok /\ ans.ord <= 0

\* `if let Ok(ord) = pac::vercmp(..).await { if ord < 0 {` (main.rs:347-348)
IsCandidate(ans) == ans.ok /\ ans.ord < 0

\* one round of `for (name, curver) in foreign.iter()` (main.rs:345-359)
Compare ==
    /\ upc = "compare"
    /\ Len(cmpLog) < Len(foreign_iter)
    /\ LET name == foreign_iter[Len(cmpLog) + 1]
       IN  IF name \in DOMAIN latest
           THEN \E ans \in VercmpAnswers :
                   /\ cmpLog' = Append(cmpLog, [name |-> name, answer |-> ans])
                   /\ outdated' =
                        IF IsCandidate(ans)
                        THEN Append(outdated, [name |-> name, current |-> foreign[name],
                                               latest |-> latest[name]])
                        ELSE outdated
           ELSE /\ cmpLog' = Append(cmpLog, [name |-> name, answer |-> NotCompared])
                /\ UNCHANGED outdated
    /\ UNCHANGED <<foreign, latest, foreign_iter, upc, rvars, bvars, fvars, pvars,
                   svars, kvars, cvars, gvars>>

\* the loop is left (main.rs:359)
EndDetect ==
    /\ upc = "compare"
    /\ Len(cmpLog) = Len(foreign_iter)
    /\ upc' = "done"
    /\ UNCHANGED <<foreign, latest, foreign_iter, cmpLog, outdated, rvars, bvars,
                   fvars, pvars, svars, kvars, cvars, gvars>>

NextUpdate == Compare \/ EndDetect

SpecUpdate == InitUpdate /\ [][NextUpdate]_vars

\* the comparator answered negative for the installed name n
AnsweredNegative(n) ==
    \E i \in 1..Len(cmpLog) :
        /\ cmpLog[i].name = n
        /\ cmpLog[i].answer \in VercmpAnswers
        /\ cmpLog[i].answer.ok
        /\ cmpLog[i].answer.ord < 0

Detected == upc = "done"

\* C27: when the detection ends, the upgrade candidates are exactly the names
\* in both the installed map and the latest map for which the comparator
\* answered negative on (installed, latest), each once with its two versions;
\* every name of both maps was compared, whatever the comparator answered or
\* failed on for the names before it.
C27_CandidatesAreNegativeComparisons ==
    Detected =>
        /\ { outdated[i].name : i \in 1..Len(outdated) }
              = { n \in DOMAIN foreign \cap DOMAIN latest : AnsweredNegative(n) }
        /\ \A i, j \in 1..Len(outdated) : outdated[i].name = outdated[j].name => i = j
        /\ \A i \in 1..Len(outdated) :
              /\ outdated[i].current = foreign[outdated[i].name]
              /\ outdated[i].latest = latest[outdated[i].name]
        /\ \A n \in DOMAIN foreign \cap DOMAIN latest :
              \E i \in 1..Len(cmpLog) :
                  cmpLog[i].name = n /\ cmpLog[i].answer \in VercmpAnswers

\* the comparator failed on the first installed name, answered zero for the
\* second and negative for the third, which is the one candidate
C27_Witness ==
    /\ Detected
    /\ Len(cmpLog) = 3
    /\ cmpLog[1].answer = VercmpErr
    /\ cmpLog[2].answer = VercmpOk(0)
    /\ cmpLog[3].answer = VercmpOk(-1)
    /\ Len(outdated) = 1
    /\ outdated[1].name = cmpLog[3].name

-----------------------------------------------------------------------------
(* fetch_infos under the mirror bases a configuration can hold
   (aur.rs:176-180, 261-286) *)

GitlabPrefix == <<"https:", "/", "/", "gitlab.com", "/">>

\* a base written as padding, a host prefix, a path, a suffix and padding
MkBase(pad, prefix, path, suffix) == pad \o prefix \o path \o suffix \o pad

BasePrefixes == {HttpsPrefix, HttpPrefix, ScpPrefix, SshPrefix, GitlabPrefix}
BasePaths == {<<"owner", "/", "repo">>, <<"owner">>}
BaseSuffixes == {<<>>, <<".git">>, <<"/">>, <<".git", "/">>}
BasePads == {<<>>, <<" ">>}

\* the host alone, as its URL
BareHost == HttpsPrefix

\* the values of cfg.mirror_base: none, the host alone, and the written bases
MirrorBases ==
    {None, Some(BareHost)}
    \cup { Some(MkBase(pad, prefix, path, suffix)) :
              pad \in BasePads, prefix \in BasePrefixes,
              path \in BasePaths, suffix \in BaseSuffixes }

\* the Mirror source, a mirror whose only branch is a, at most one name asked
InitBase ==
    /\ InitFetchOver(MirrorBases)
    /\ source = "github"
    /\ DOMAIN mirror \subseteq {A}
    /\ Len(names_arg) <= 1

SpecBase == InitBase /\ [][NextFetch]_vars

\* the bases of the form https://github.com/<owner>/<repo>, with or without
\* a .git suffix and a trailing slash (and the default, which has that form)
ClaimedFormBases ==
    {None} \cup { Some(MkBase(pad, HttpsPrefix, <<"owner", "/", "repo">>, suffix)) :
                     pad \in BasePads, suffix \in BaseSuffixes }

\* the bases that begin, once padding, trailing slashes and a .git suffix are
\* taken off, with one of the four github.com prefixes and go on after it
SupportedBases ==
    {None} \cup { Some(MkBase(pad, prefix, path, suffix)) :
                     pad \in BasePads,
                     prefix \in {HttpsPrefix, HttpPrefix, ScpPrefix, SshPrefix},
                     path \in BasePaths, suffix \in BaseSuffixes }

\* the call failed with the configuration error and made no HTTP request
FailedBeforeAnyRequest ==
    /\ fresult.tag = "err"
    /\ rpcLog = <<>>
    /\ branchLog = <<>>
    /\ taskLog = << >>

\* C28 as stated: under the Mirror variant with a mirror base that is not of
\* the form https://github.com/<owner>/<repo> (with or without .git and a
\* trailing slash), every fetch of a non-empty name set fails with an error
\* before any HTTP request.
C28_NotClaimedFormFails ==
    (FetchReturned /\ source = "github" /\ names_arg # <<>>
        /\ mirror_base \notin ClaimedFormBases)
    => FailedBeforeAnyRequest

\* C28: under the Mirror variant with a mirror base that, once surrounding
\* whitespace, trailing slashes and a .git suffix are taken off, begins with
\* none of https://github.com/, http://github.com/, git@github.com: and
\* ssh://git@github.com/, every fetch of a non-empty name set fails with an
\* error before any HTTP request; with a base that begins with one of them
\* the fetch does not fail that way.
C28_UnsupportedBaseFails ==
    /\ (fpc # "start" /\ source = "github" /\ names_arg # <<>>
          /\ mirror_base \notin SupportedBases)
       => (FetchReturned /\ FailedBeforeAnyRequest)
    /\ (FetchReturned /\ source = "github" /\ names_arg # <<>>
          /\ mirror_base \in SupportedBases)
       => ~(fresult.tag = "err" /\ fresult.err = "config")

\* a fetch of one name under the base https://github.com/ failed at once
C28_Witness ==
    /\ FetchReturned
    /\ source = "github"
    /\ names_arg = <<A>>
    /\ mirror_base = Some(BareHost)
    /\ FailedBeforeAnyRequest

-----------------------------------------------------------------------------
(* The discovery loop of resolve_build_order (aur.rs:103-125) *)

\* C29: within one resolve_build_order call no name is passed to the metadata
\* source in more than one fetch chunk, a name the source never returns a
\* record for and that several packages depend on included.
C29_NoNameFetchedTwice ==
    \A i, j \in 1..Len(fetchLog) :
        i < j => SeqToSet(fetchLog[i]) \cap SeqToSet(fetchLog[j]) = {}

\* the metadata set has a dependency cycle reachable from the roots, or a
\* root or dependency the source never returns
CycleFound == result = Err("cycle")

\* C30: the discovery loop ends for every finite metadata set whose fetches
\* end, with dependency cycles and never-returned names as well: the queue
\* empties unless a fetch fails, no cycle error is reported while the loop
\* runs, and a cycle is reported by the sort after the queue is empty.
C30_DiscoveryTerminates ==
    /\ <>(pc = "done")
    /\ <>(to_visit = <<>> \/ fetchFailed)
    /\ [](pc = "discover" => result = NoResult)
    /\ [](CycleFound => to_visit = <<>> /\ graph # NoGraph)

\* a call over a dependency cycle, with a name the source never returned among
\* its fetches, ended with the cycle error after more than two fetches
C30_Witness ==
    /\ pc = "done"
    /\ CycleFound
    /\ to_visit = <<>>
    /\ Len(fetchLog) >= 3
    /\ \E i \in 1..Len(fetchLog) : S \in SeqToSet(fetchLog[i])

-----------------------------------------------------------------------------
(* More claims about fetch_srcinfo_from_url and fetch_branch_srcinfo *)

\* C31: when all three attempts on a candidate URL time out the fetch of that
\* URL yields an error; a URL is reported absent only on a 404 response, never
\* after a timeout (the return after the attempt loop is not reached), and no
\* URL is requested more than three times.
C31_AbsentOnlyOn404 ==
    \A k \in 1..Len(reqLog) :
        /\ reqLog[k].attempt < GITHUB_SRCINFO_MAX_RETRIES
        /\ RetriesExhausted(k) => reqLog[k].then = "err"
        /\ reqLog[k].then = "none" =>
              /\ reqLog[k].outcome.send = "response"
              /\ reqLog[k].outcome.status = "404"
        /\ reqLog[k].outcome.send = "timeout" => reqLog[k].then \in {"retry", "err"}

\* the second candidate timed out three times after a 404 of the first: its
\* fetch ended in an error, and the third candidate was absent by a 404
C31_Witness ==
    /\ BranchReturned
    /\ Len(reqLog) = 5
    /\ reqLog[1].then = "none"
    /\ \A k \in 2..4 : reqLog[k].url = 2 /\ reqLog[k].outcome.send = "timeout"
    /\ reqLog[4].then = "err"
    /\ reqLog[5].outcome.status = "404"
    /\ bresult.tag = "err"

\* the candidate URLs of branch foo in the order the claim gives them
ClaimedUrlOrder == <<TopLevelUrl, UnderUrl("master"), UnderUrl("main")>>

\* C32: the candidate URLs of a branch are requested in the order
\* <base>/<branch>, <base>/master/<branch>, <base>/main/<branch> (a request is
\* followed by a retry of its URL or by the next candidate), no request is made
\* after a candidate answered with a body that parsed, and the branch fetch
\* then returns the records of that candidate.
C32_CandidatesInOrderUntilParsed ==
    /\ reqLog # <<>> => reqLog[1].to = ClaimedUrlOrder[1]
    /\ \A k \in 1..(Len(reqLog) - 1) :
          \/ reqLog[k + 1].to = reqLog[k].to
          \/ \E i \in 1..2 : /\ reqLog[k].to = ClaimedUrlOrder[i]
                             /\ reqLog[k + 1].to = ClaimedUrlOrder[i + 1]
    /\ \A k \in 1..Len(reqLog) :
          Parsed(k) =>
              /\ k = Len(reqLog)
              /\ BranchReturned
              /\ bresult.tag = "ok"
              /\ ClaimedUrlOrder[bresult.from] = reqLog[k].to

\* the top-level candidate was absent, the master candidate failed on its
\* status and the main candidate parsed: the fetch returned its records
C32_Witness ==
    /\ BranchReturned
    /\ Len(reqLog) = 3
    /\ reqLog[1].outcome.status = "404"
    /\ reqLog[2].outcome.status = "4xx5xx"
    /\ Parsed(3)
    /\ reqLog[3].to = UnderUrl("main")
    /\ bresult.from = 3

\* request k got a 2xx response with a body that parsed
Parsed2xx(k) == Parsed(k) /\ reqLog[k].outcome.status = "2xx"

\* request k ended the fetch of its candidate URL in an error
CandidateFailed(k) == reqLog[k].then = "err"

\* the error of request k as the branch fetch reports it
ErrorOf(k) ==
    [url |-> reqLog[k].url,
     kind |-> IF reqLog[k].outcome.send # "response" THEN "unreachable"
              ELSE IF reqLog[k].outcome.status = "4xx5xx" THEN "status"
              ELSE IF reqLog[k].outcome.body = "unreadable" THEN "read"
              ELSE "parse"]

\* the error reported is that of the last failing candidate, and the candidate
\* after a failing one is requested
LastErrorReportedAllRequested ==
    /\ bresult.tag = "err" =>
          \E k \in 1..Len(reqLog) :
              /\ CandidateFailed(k)
              /\ \A j \in (k + 1)..Len(reqLog) : ~CandidateFailed(j)
              /\ bresult.err = ErrorOf(k)
    /\ \A k \in 1..Len(reqLog) :
          (CandidateFailed(k) /\ reqLog[k].url < Len(ClaimedUrlOrder))
              => \E j \in (k + 1)..Len(reqLog) : reqLog[j].url = reqLog[k].url + 1

----------------------------------------------------------------------------
(* More claims about github_fetch_infos *)

\* the .SRCINFO of branch x declares a package named y
Declares(x, y) ==
    x \in DOMAIN mirror /\ \E i \in 1..Len(mirror[x]) : mirror[x][i].name = y

\* branch x produces y: its .SRCINFO has pkgbase x and declares y
Produces(x, y) ==
    x \in DOMAIN mirror
        /\ \E i \in 1..Len(mirror[x]) : mirror[x][i].name = y /\ mirror[x][i].pkgbase = x

MirrorFetchOk == source = "github" /\ FetchReturned /\ fresult.tag = "ok"

\* C34: a split-package output y whose own branch is absent is returned by a
\* Mirror fetch whenever a branch x that produces y (pkgbase x) is among the
\* names of the same call, wherever x and y stand in the list and whichever
\* chunk each falls into; when no such x is among the names, y is absent from
\* the result.
C34_SplitOutputReturnedWithItsBase ==
    MirrorFetchOk =>
        \A y \in SeqToSet(names_arg) \ DOMAIN mirror :
            /\ (\E x \in SeqToSet(names_arg) : Produces(x, y)) => y \in DOMAIN fresult.infos
            /\ (~ \E x \in SeqToSet(names_arg) : Produces(x, y)) => y \notin DOMAIN fresult.infos

\* the Vec a successful fetch returns: the values of `results`
ReturnedRecords == { fresult.infos[k] : k \in DOMAIN fresult.infos }

\* C35: the result of a Mirror fetch contains only records whose name is a
\* requested name, at most one record per requested name, and never a sibling
\* output of a fetched branch that was not itself requested.
C35_OnlyRequestedNamesOnceEach ==
    MirrorFetchOk =>
        /\ \A r \in ReturnedRecords : r.name \in SeqToSet(names_arg)
        /\ \A n \in SeqToSet(names_arg) :
              Cardinality({ k \in DOMAIN fresult.infos : fresult.infos[k].name = n }) <= 1
        /\ \A b \in DOMAIN taskLog : \A i \in 1..Len(taskLog[b].entries) :
              taskLog[b].entries[i].name \notin SeqToSet(names_arg)
                  => \A r \in ReturnedRecords : r.name # taskLog[b].entries[i].name

\* branch a declares a and b, only a is requested: a is returned without b
C35_Witness ==
    /\ MirrorFetchOk
    /\ names_arg = <<A>>
    /\ A \in DOMAIN taskLog
    /\ { taskLog[A].entries[i].name : i \in 1..Len(taskLog[A].entries) } = {A, B}
    /\ { r.name : r \in ReturnedRecords } = {A}

\* what a successful fetch of branch b yields: the records of its .SRCINFO, or
\* nothing when the branch is absent
BranchRecords(b) == IF b \in DOMAIN mirror THEN mirror[b] ELSE <<>>

\* x stands before y in the sorted branch list
SortsBefore(x, y) ==
    \E i, j \in 1..Len(TargetOrder) : i < j /\ TargetOrder[i] = x /\ TargetOrder[j] = y

\* the pkgbase of the first record named n in the .SRCINFO of branch b
DeclaredBase(b, n) ==
    LET i == CHOOSE k \in 1..Len(mirror[b]) :
                 /\ mirror[b][k].name = n
                 /\ \A j \in 1..(k - 1) : mirror[b][j].name # n
    IN  mirror[b][i].pkgbase

\* the batch ends with every branch fetched
BatchMerged == fpc = "workers" /\ fpc' # "workers" /\ fresult'.tag # "err"

\* the maps after a batch, from the maps before it and the set of its branches
MergedBySortedOrder ==
    /\ branch_cache' = [b \in DOMAIN workers |-> BranchRecords(b)] @@ branch_cache
    /\ DOMAIN package_to_branch' =
          DOMAIN package_to_branch \cup { n \in AurNames : \E b \in DOMAIN workers : Declares(b, n) }
    /\ \A n \in DOMAIN package_to_branch' :
          IF n \in DOMAIN package_to_branch
          THEN package_to_branch'[n] = package_to_branch[n]
          ELSE \E b \in DOMAIN workers :
                  /\ Declares(b, n)
                  /\ \A x \in DOMAIN workers : Declares(x, n) => (x = b \/ SortsBefore(b, x))
                  /\ package_to_branch'[n] = DeclaredBase(b, n)

\* the result of the call is the one the names and the mirror determine
ResultDetermined ==
    MirrorFetchOk => fresult.infos = GithubFetch(mirror, Unique(names_arg))

\* C36: when every branch of a batch is fetched successfully, BranchCache, the
\* name-to-branch map and the fetch result are the same for every order in
\* which the parallel workers start and finish, also when two fetched branches
\* declare a record of the same name: the mapping follows the sorted branch
\* order, not the completion order.
C36_SameForEveryWorkerOrder ==
    /\ []ResultDetermined
    /\ [][BatchMerged => MergedBySortedOrder]_vars

\* branches a and b of one batch both declare c under their own pkgbase, the
\* task of b finished before the task of a, and c is mapped to a
C36_Witness ==
    /\ MirrorFetchOk
    /\ {A, B} \subseteq DOMAIN workers
    /\ workers[B].rank < workers[A].rank
    /\ Produces(A, C) /\ Produces(B, C)
    /\ C \in DOMAIN package_to_branch /\ package_to_branch[C] = A
    /\ C \in DOMAIN fresult.infos /\ fresult.infos[C].pkgbase = A

----------------------------------------------------------------------------
(* More claims about resolve_build_order and parse_srcinfo *)

\* the graph has an edge from the node of n to itself
SelfEdge(n) ==
    \E i \in 1..Len(graph.nodes) :
        /\ graph.nodes[i] = n
        /\ \E k \in 1..Len(graph.edges) : graph.edges[k] = <<i, i>>

\* C37: a resolved package whose version-stripped dependency lists contain its
\* own name gives the graph a self-edge, and resolve_build_order fails with
\* the cycle error instead of ignoring the self-dependency.
C37_SelfDependencyIsCycle ==
    (Returned /\ ~fetchFailed) =>
        \A n \in DOMAIN infos :
            DependsOn(infos[n], n) =>
                /\ SelfEdge(n)
                /\ result = Err("cycle")

\* the root a was resolved, it declares a dependency on a, and nothing else is
\* in the graph: the call fails with the cycle error
C37_Witness ==
    /\ Returned
    /\ roots = <<A>>
    /\ DOMAIN infos = {A}
    /\ DependsOn(infos[A], A)
    /\ \A d \in AurNames \ {A} : ~DependsOn(infos[A], d)
    /\ graph.nodes = <<A>>
    /\ graph.edges # <<>>
    /\ \A k \in 1..Len(graph.edges) : graph.edges[k] = <<1, 1>>
    /\ result = Err("cycle")

\* line i stands after a pkgbase line with no pkgname line in between
AfterPkgbase(i) ==
    \E p \in LinesOf("pkgbase") :
        p < i /\ \A n \in LinesOf("pkgname") : ~(p < n /\ n < i)

\* the entries of list f of record k
ListOf(k, f) == IF parsed.infos[k][f].some THEN parsed.infos[k][f].v ELSE <<>>

IsPrefix(a, b) == Len(a) <= Len(b) /\ SubSeq(b, 1, Len(a)) = a

\* C38: a pkgbase line closes the current sub-package section: the dependency
\* lines after it and before the next pkgname line go to the shared base-level
\* lists and so appear in the lists of every record, those of the sub-packages
\* declared before that pkgbase line included.
C38_PkgbaseLineClosesSection ==
    ParseSucceeded =>
        \A f \in DepCategories : \A k \in 1..Len(parsed.infos) :
            /\ \A i \in LinesOf(f) :
                  AfterPkgbase(i) =>
                      \E j \in 1..Len(ListOf(k, f)) : ListOf(k, f)[j] = Reading(contents[i]).value
            /\ IsPrefix(SectionList(BaseSection, f), ListOf(k, f))

\* two pkgname lines, then a pkgbase line, then a depends line: the records
\* of both sub-packages declared before the pkgbase line have the entry
C38_Witness ==
    /\ ParseSucceeded
    /\ \E n \in 1..Len(contents) :
          /\ n + 3 = Len(contents)
          /\ SubSeq(contents, n, n + 3) = <<PkgnameA, PkgnameB, PkgbaseLine, DependsC>>
          /\ LinesOf("pkgname") = {n, n + 1}
          /\ \A i \in 1..(n - 1) : Reading(contents[i]).key \notin DepCategories
    /\ Len(parsed.infos) = 2
    /\ parsed.infos[1].name = A /\ parsed.infos[2].name = B
    /\ \A k \in 1..2 : parsed.infos[k].depends = Some(<< <<"c", ">", "=", "1">> >>)

----------------------------------------------------------------------------
(* The clone, edit and build steps of handle_sysupgrade and handle_sync
   (main.rs:385-470, 566-664) *)

\* the pkgbase lists the grouping loop yields: each pkgbase once, in any order
BaseLists ==
    UNION { { q \in [1..n -> AurNames] : \A i, j \in 1..n : q[i] = q[j] => i = j } :
              n \in 1..Cardinality(AurNames) }

\* the handler after the grouping loop, with the three lists just created
\* (main.rs:386-388, 402; 584)
InitBuild ==
    /\ ResolverIdle
    /\ BranchIdle
    /\ FetchIdle
    /\ ParseIdle /\ StripIdle /\ UpdateIdle
    /\ info_for_order = << >>
    /\ pkgbases \in BaseLists
    /\ ppc = "done"
    /\ clone_failed = <<>>
    /\ build_failed = <<>>
    /\ built_ok = <<>>
    /\ base_idx = 1
    /\ opLog = <<>>
    /\ gpc = "clone"

Ran(op, base, ok) == [op |-> op, base |-> base, ok |-> ok]

\* the loop over pkgbases goes to its next base, or is left for the step `after`
NextBaseOr(after) ==
    IF base_idx < Len(pkgbases)
    THEN /\ base_idx' = base_idx + 1 /\ gpc' = gpc
    ELSE /\ base_idx' = 1 /\ gpc' = after

\* One iteration of `for base in &pkgbases` around clone_aur_pkgs
\* (main.rs:404-420, 586-606): git clone succeeds or fails (build.rs:51-132).
CloneBase ==
    /\ gpc = "clone"
    /\ \E ok \in BOOLEAN :
          /\ opLog' = Append(opLog, Ran("clone", pkgbases[base_idx], ok))
          /\ clone_failed' = IF ok THEN clone_failed
                             ELSE Append(clone_failed, pkgbases[base_idx])
    /\ NextBaseOr("prompt")
    /\ UNCHANGED <<build_failed, built_ok>>
    /\ UNCHANGED <<rvars, bvars, fvars, pvars, svars, kvars, uvars, cvars>>

\* The edit prompt and the file manager (main.rs:422-427, 609-614;
\* build.rs:134-144): the prompt fails, or is answered no or yes; after yes
\* the file manager exits with success or failure.
Prompt ==
    /\ gpc = "prompt"
    /\ \E answer \in {"error", "no", "yes"} : \E fm \in BOOLEAN :
          CASE answer = "error" ->
                  /\ opLog' = Append(opLog, Ran("prompt", <<>>, FALSE))
                  /\ gpc' = "returned"
            [] answer = "no" ->
                  /\ fm
                  /\ opLog' = Append(opLog, Ran("prompt", <<>>, TRUE))
                  /\ gpc' = "build"
            [] OTHER ->
                  /\ opLog' = opLog \o <<Ran("prompt", <<>>, TRUE), Ran("open_file_manager", <<>>, fm)>>
                  /\ gpc' = IF fm THEN "regen" ELSE "returned"
    /\ UNCHANGED <<clone_failed, build_failed, built_ok, base_idx>>
    /\ UNCHANGED <<rvars, bvars, fvars, pvars, svars, kvars, uvars, cvars>>

\* One iteration of `for base in &pkgbases { regen_srcinfo(..)?; }`
\* (main.rs:429-431, 615-617): the loop runs over every pkgbase, those whose
\* clone failed included; `cd <dir> && makepkg --printsrcinfo` (build.rs:146-160)
\* fails where the directory or its PKGBUILD is missing and may fail anywhere,
\* and a failure is returned from the handler.
RegenBase ==
    /\ gpc = "regen"
    /\ \E ok \in BOOLEAN :
          /\ opLog' = Append(opLog, Ran("regen_srcinfo", pkgbases[base_idx], ok))
          /\ IF ok THEN NextBaseOr("build")
             ELSE /\ gpc' = "returned" /\ UNCHANGED base_idx
    /\ UNCHANGED <<clone_failed, build_failed, built_ok>>
    /\ UNCHANGED <<rvars, bvars, fvars, pvars, svars, kvars, uvars, cvars>>

\* One iteration of the verify-and-build loop (main.rs:435-470, 620-664): a
\* base of clone_failed is skipped; a failed verify_sources puts the base into
\* build_failed; makepkg_build puts it into built_ok or build_failed.
BuildBase ==
    /\ gpc = "build"
    /\ LET base == pkgbases[base_idx]
       IN  IF base \in SeqToSet(clone_failed)
           THEN UNCHANGED <<opLog, build_failed, built_ok>>
           ELSE \E verified \in BOOLEAN : \E made \in BOOLEAN :
                   IF ~verified
                   THEN /\ made
                        /\ opLog' = Append(opLog, Ran("verify_sources", base, FALSE))
                        /\ build_failed' = Append(build_failed, base)
                        /\ UNCHANGED built_ok
                   ELSE /\ opLog' = opLog \o <<Ran("verify_sources", base, TRUE),
                                               Ran("makepkg_build", base, made)>>
                        /\ IF made
                           THEN /\ built_ok' = Append(built_ok, base)
                                /\ UNCHANGED build_failed
                           ELSE /\ build_failed' = Append(build_failed, base)
                                /\ UNCHANGED built_ok
    /\ NextBaseOr("collect")
    /\ UNCHANGED clone_failed
    /\ UNCHANGED <<rvars, bvars, fvars, pvars, svars, kvars, uvars, cvars>>

NextBuild == CloneBase \/ Prompt \/ RegenBase \/ BuildBase

SpecBuild == InitBuild /\ [][NextBuild]_vars

\* ---- claims about the clone, edit and build steps

CloneSucceeded(b) == \E k \in 1..Len(opLog) : opLog[k] = Ran("clone", b, TRUE)

\* the handler is past the build loop, or has returned before it
FlowOver == gpc \in {"collect", "returned"}

\* something other than the clone or the build of a base failed: the prompt,
\* the file manager, or the regeneration of .SRCINFO in a cloned directory
OtherFailure ==
    \E k \in 1..Len(opLog) :
        /\ ~opLog[k].ok
        /\ \/ opLog[k].op \in {"prompt", "open_file_manager"}
           \/ opLog[k].op = "regen_srcinfo" /\ CloneSucceeded(opLog[k].base)

\* how many of the three lists' entries are the base b
TimesListed(b) ==
    Len(SelectSeq(clone_failed \o build_failed \o built_ok, LAMBDA x : x = b))

\* C39: no pkgbase is source-verified or built unless its clone succeeded; a
\* base's clone or build failure does not stop the remaining bases from being
\* processed; and at the end every pkgbase is in exactly one of clone_failed,
\* build_failed and built_ok.
C39_FailuresOfOneBaseKeptApart ==
    /\ \A k \in 1..Len(opLog) :
          opLog[k].op \in {"verify_sources", "makepkg_build"} =>
              \E j \in 1..(k - 1) : opLog[j] = Ran("clone", opLog[k].base, TRUE)
    /\ (FlowOver /\ ~OtherFailure) =>
          /\ \A i \in 1..Len(pkgbases) :
                CloneSucceeded(pkgbases[i]) =>
                    \E k \in 1..Len(opLog) :
                        opLog[k].op = "verify_sources" /\ opLog[k].base = pkgbases[i]
          /\ \A i \in 1..Len(pkgbases) : TimesListed(pkgbases[i]) = 1

====
